---------------------------- MODULE Spec2Model ----------------------------
(***************************************************************************)
(* A model of the chess engine core: the board with incremental            *)
(* make/unmake and Zobrist hashing (chess-core/src/board.rs), the quiet    *)
(* pawn and en-passant move generators (chess-core/src/movgen), the pawn   *)
(* attack table (table-gen/src/pawn_move.rs) and the search coordinator    *)
(* with its worker thread (engine/src/searcher.rs).                        *)
(*                                                                         *)
(* A bitboard is the set of its squares; ^ is symmetric difference, | is   *)
(* union, & is intersection.  An Option is the empty set (None) or a       *)
(* singleton (Some).  A Zobrist hash is the set of the keys that were      *)
(* XORed in an odd number of times: the keys are independent random        *)
(* 64-bit words, so two hashes agree exactly when these sets agree.        *)
(***************************************************************************)
EXTENDS Integers, Sequences, FiniteSets, TLC

VARIABLES board, panicked, chan, stop, worker, current, table_lock,
          caller, sent, emitted, received, cancel_requested, rescale, probe

boardVars == <<board, panicked>>
searcherVars == <<chan, stop, worker, current, table_lock, caller, sent,
                  emitted, received, cancel_requested>>
evalVars == <<rescale, probe>>
vars == <<board, panicked, chan, stop, worker, current, table_lock, caller,
          sent, emitted, received, cancel_requested, rescale, probe>>

-----------------------------------------------------------------------------
(* Colors, pieces, squares *)

White == "White"
Black == "Black"
ALL_COLORS == <<White, Black>>
Color == {White, Black}

Pawn == "Pawn"
Knight == "Knight"
Bishop == "Bishop"
Rook == "Rook"
Queen == "Queen"
King == "King"
ALL_PIECES == <<Pawn, Knight, Bishop, Rook, Queen, King>>
Piece == {Pawn, Knight, Bishop, Rook, Queen, King}
ALL_PROMOTIONS == <<Knight, Bishop, Rook, Queen>>

Normal == "Normal"
Capture == "Capture"
DoublePawnPush == "DoublePawnPush"
EnPassant == "EnPassant"
Castling == "Castling"

ColorIdx == [White |-> 0, Black |-> 1]
PieceIdx == [Pawn |-> 0, Knight |-> 1, Bishop |-> 2, Rook |-> 3, Queen |-> 4, King |-> 5]

Not(c) == IF c = White THEN Black ELSE White

Square == 0 .. 63
FileIdx == [a |-> 0, b |-> 1, c |-> 2, d |-> 3, e |-> 4, f |-> 5, g |-> 6, h |-> 7]
to_file(s) == s % 8
to_rank(s) == s \div 8
SquareFrom(rank, file) == rank * 8 + file
\* S("e", 4) is the square e4
S(f, r) == SquareFrom(r - 1, FileIdx[f])

\* Color::backrank: rank index of the color's own first rank
backrank(c) == IF c = White THEN 0 ELSE 7
\* Color::double_pawn_push_rank: rank index a double push lands on
double_pawn_push_rank(c) == IF c = White THEN 3 ELSE 4

\* Square::forward: the square one rank ahead for the color, None off the board
forward(s, c) ==
    IF c = White
    THEN (IF to_rank(s) < 7 THEN {s + 8} ELSE {})
    ELSE (IF to_rank(s) > 0 THEN {s - 8} ELSE {})

\* Option::unwrap of a Some
unwrap(o) == CHOOSE x \in o : TRUE

-----------------------------------------------------------------------------
(* Bitboard primitives *)

EMPTY == {}
Xor(a, b) == (a \ b) \cup (b \ a)
mask_file(f) == {s \in Square : to_file(s) = f}
mask_rank(r) == {s \in Square : to_rank(s) = r}
NOT_A_FILE == Square \ mask_file(0)
NOT_H_FILE == Square \ mask_file(7)
\* BitBoard::shift / << / >> on a 64-bit word: bits shifted out are lost
shift(bb, n) == {s + n : s \in bb} \cap Square
\* BitBoard::bit_scan: the least significant set square
Min(bb) == CHOOSE s \in bb : \A t \in bb : s <= t
bit_scan(bb) == Min(bb)

-----------------------------------------------------------------------------
(* Attack tables *)

SameDiag(a, b) == to_file(a) - to_rank(a) = to_file(b) - to_rank(b)
SameAnti(a, b) == to_file(a) + to_rank(a) = to_file(b) + to_rank(b)
SameRank(a, b) == to_rank(a) = to_rank(b)
SameFile(a, b) == to_file(a) = to_file(b)
Within(x, p, q) == (p < x /\ x < q) \/ (q < x /\ x < p)

BetweenTable ==
    [a \in Square |-> [b \in Square |->
        IF a = b THEN {}
        ELSE IF SameRank(a, b)
        THEN {s \in Square : SameRank(a, s) /\ Within(to_file(s), to_file(a), to_file(b))}
        ELSE IF SameFile(a, b)
        THEN {s \in Square : SameFile(a, s) /\ Within(to_rank(s), to_rank(a), to_rank(b))}
        ELSE IF SameDiag(a, b)
        THEN {s \in Square : SameDiag(a, s) /\ Within(to_rank(s), to_rank(a), to_rank(b))}
        ELSE IF SameAnti(a, b)
        THEN {s \in Square : SameAnti(a, s) /\ Within(to_rank(s), to_rank(a), to_rank(b))}
        ELSE {}]]
between(a, b) == BetweenTable[a][b]

RookLines == [s \in Square |-> {t \in Square : t # s /\ (SameRank(s, t) \/ SameFile(s, t))}]
BishopLines == [s \in Square |-> {t \in Square : t # s /\ (SameDiag(s, t) \/ SameAnti(s, t))}]

\* sliding attacks: every square of the line up to and including the first blocker
get_rook_attacks(s, occ) == {t \in RookLines[s] : between(s, t) \cap occ = {}}
get_bishop_attacks(s, occ) == {t \in BishopLines[s] : between(s, t) \cap occ = {}}

Abs(x) == IF x < 0 THEN -x ELSE x
KnightTable ==
    [s \in Square |-> {t \in Square :
        LET df == Abs(to_file(s) - to_file(t))
            dr == Abs(to_rank(s) - to_rank(t))
        IN  (df = 1 /\ dr = 2) \/ (df = 2 /\ dr = 1)}]
get_knight_attacks(s) == KnightTable[s]
KingTable ==
    [s \in Square |-> {t \in Square :
        t # s /\ Abs(to_file(s) - to_file(t)) <= 1 /\ Abs(to_rank(s) - to_rank(t)) <= 1}]
get_king_attacks(s) == KingTable[s]

\* the two shifted squares with no file mask applied
mask_pawn_attacks_unmasked(square, side) ==
    IF side = White THEN shift({square}, 7) \cup shift({square}, 9)
    ELSE shift({square}, -9) \cup shift({square}, -7)

\* table-gen: the two diagonals in front, kept when they did not wrap a board edge
mask_pawn_attacks(square, side) ==
    LET bitboard == {square}
        left_diagonal == IF side = White THEN shift(bitboard, 7) ELSE shift(bitboard, -9)
        right_diagonal == IF side = White THEN shift(bitboard, 9) ELSE shift(bitboard, -7)
    IN  (IF left_diagonal \cap NOT_H_FILE # {} THEN left_diagonal ELSE {})
        \cup (IF right_diagonal \cap NOT_A_FILE # {} THEN right_diagonal ELSE {})
generate_pawn_attacks == [c \in Color |-> [s \in Square |-> mask_pawn_attacks(s, c)]]
get_pawn_attacks(s, c) == generate_pawn_attacks[c][s]

-----------------------------------------------------------------------------
(* Zobrist keys: each key is named by its index in the key tables *)

PIECE_KEYS(c, p, s) == ColorIdx[c] * 384 + PieceIdx[p] * 64 + s
EN_PASSANT_KEYS(f) == 768 + f
CASTLE_KEYS(i) == 776 + i
SIDE_KEY == 776 + 16

(* Castling rights: a 4-bit mask over WK, WQ, BK, BQ *)
WK == "WK"
WQ == "WQ"
BK == "BK"
BQ == "BQ"
CastlingRightsAll == {WK, WQ, BK, BQ}
WHITE_BOTH_SIDES == {WK, WQ}
BLACK_BOTH_SIDES == {BK, BQ}
RightBit == [WK |-> 1, WQ |-> 2, BK |-> 4, BQ |-> 8]
to_usize(r) ==
    (IF WK \in r THEN RightBit[WK] ELSE 0) + (IF WQ \in r THEN RightBit[WQ] ELSE 0)
    + (IF BK \in r THEN RightBit[BK] ELSE 0) + (IF BQ \in r THEN RightBit[BQ] ELSE 0)
\* the rights that survive a move from or to the square: a corner loses its side's right
UPDATE_CASTLING_RIGHT_TABLE(s) ==
    CastlingRightsAll \ ((IF s = S("a", 1) THEN {WQ} ELSE {}) \cup (IF s = S("h", 1) THEN {WK} ELSE {})
                         \cup (IF s = S("a", 8) THEN {BQ} ELSE {}) \cup (IF s = S("h", 8) THEN {BK} ELSE {}))

\* rook files of a castling move, indexed by (king target file) / 4
CASTLE_CONFIG == <<<<FileIdx["a"], FileIdx["d"]>>, <<FileIdx["h"], FileIdx["f"]>>>>

U8 == 256
U16 == 65536

-----------------------------------------------------------------------------
(* Board accessors *)

piece_at_unreachable(b, square) ==
    square \in b.combined /\ \A p \in Piece : square \notin b.pieces[p]

piece_at(b, square) ==
    IF square \notin b.combined THEN {}
    ELSE LET found == {i \in 1 .. Len(ALL_PIECES) : square \in b.pieces[ALL_PIECES[i]]}
         IN  {ALL_PIECES[Min(found)]}

color_at(b, square) ==
    IF square \notin b.combined THEN {}
    ELSE IF square \in b.occupancies[White] THEN {White}
    ELSE {Black}

\* the recomputation with the pawn attacks looked up for the other color
recompute_pinned_checkers_pawns_reversed(pieces, occupancies, combined, side_to_move) ==
    LET king_square == bit_scan(pieces[King] \cap occupancies[side_to_move])
        potential_pinners ==
            ((get_bishop_attacks(king_square, {}) \cap (pieces[Bishop] \cup pieces[Queen]))
             \cup (get_rook_attacks(king_square, {}) \cap (pieces[Rook] \cup pieces[Queen])))
            \cap occupancies[Not(side_to_move)]
        slider_checkers ==
            {sq \in potential_pinners : between(sq, king_square) \cap combined = {}}
        pinned ==
            UNION {between(sq, king_square) \cap combined : sq \in
                     {x \in potential_pinners :
                        Cardinality(between(x, king_square) \cap combined) = 1}}
        checkers ==
            slider_checkers
            \cup (get_knight_attacks(king_square) \cap pieces[Knight]
                    \cap occupancies[Not(side_to_move)])
            \cup (get_pawn_attacks(king_square, Not(side_to_move)) \cap pieces[Pawn]
                    \cap occupancies[Not(side_to_move)])
    IN  [pinned |-> pinned, checkers |-> checkers]

\* pinned and checkers of the side to move, as apply_move recomputes them
recompute_pinned_checkers(pieces, occupancies, combined, side_to_move) ==
    LET king_square == bit_scan(pieces[King] \cap occupancies[side_to_move])
        potential_pinners ==
            ((get_bishop_attacks(king_square, {}) \cap (pieces[Bishop] \cup pieces[Queen]))
             \cup (get_rook_attacks(king_square, {}) \cap (pieces[Rook] \cup pieces[Queen])))
            \cap occupancies[Not(side_to_move)]
        slider_checkers ==
            {sq \in potential_pinners : between(sq, king_square) \cap combined = {}}
        pinned ==
            UNION {between(sq, king_square) \cap combined : sq \in
                     {x \in potential_pinners :
                        Cardinality(between(x, king_square) \cap combined) = 1}}
        checkers ==
            slider_checkers
            \cup (get_knight_attacks(king_square) \cap pieces[Knight]
                    \cap occupancies[Not(side_to_move)])
            \cup (get_pawn_attacks(king_square, side_to_move) \cap pieces[Pawn]
                    \cap occupancies[Not(side_to_move)])
    IN  [pinned |-> pinned, checkers |-> checkers]

-----------------------------------------------------------------------------
(* Make / unmake *)

Mv(from, to, piece, promotion, flags) ==
    [from |-> from, to |-> to, piece |-> piece, promotion |-> promotion, flags |-> flags]

\* the rook's start and end squares of a castling move to the king target square
castle_rook_squares(side, to) ==
    LET cfg == CASTLE_CONFIG[(to_file(to) \div 4) + 1]
    IN  [start |-> SquareFrom(backrank(side), cfg[1]), end |-> SquareFrom(backrank(side), cfg[2])]

\* apply_move aborts: a capture of an empty square, piece_at's unreachable!(),
\* or forward() of a square on the board's edge
apply_move_aborts(b, mov) ==
    \/ piece_at_unreachable(b, mov.to)
    \/ mov.flags = Capture /\ piece_at(b, mov.to) = {}
    \/ mov.flags \in {DoublePawnPush, EnPassant} /\ forward(mov.to, Not(b.side_to_move)) = {}

\* apply_move's integer additions that overflow: a debug build aborts, a release build wraps
apply_move_overflows(b) ==
    b.game_ply + 1 >= U16 \/ b.state.ply + 1 >= U16 \/ b.state.rule50 + 1 >= U8

(* apply_move works on the placement (pieces, occupancies, combined) and on   *)
(* new_state, the clone of the current state; w holds the four while the move *)
(* is being made, and each step below is one block of the function.           *)

\* the new state with the en-passant target of the old one left in place
apply_begin_keeping_en_passant(b, mov) ==
    [pieces |-> b.pieces,
     occupancies |-> b.occupancies,
     combined |-> b.combined,
     new_state |->
        [b.state EXCEPT
            !.last_move = {mov},
            !.ply = (@ + 1) % U16,
            !.rule50 = (@ + 1) % U8,
            !.captured_piece = {}]]

\* copy the state, bump the counters, clear the en-passant target
\* the new state without the bump of ply
apply_begin_keeping_ply(b, mov) ==
    [pieces |-> b.pieces,
     occupancies |-> b.occupancies,
     combined |-> b.combined,
     new_state |->
        [b.state EXCEPT
            !.last_move = {mov},
            !.rule50 = (@ + 1) % U8,
            !.en_passant_target = {},
            !.hash = IF b.state.en_passant_target # {}
                     THEN Xor(@, {EN_PASSANT_KEYS(to_file(unwrap(b.state.en_passant_target)))})
                     ELSE @,
            !.captured_piece = {}]]

apply_begin(b, mov) ==
    [pieces |-> b.pieces,
     occupancies |-> b.occupancies,
     combined |-> b.combined,
     new_state |->
        [b.state EXCEPT
            !.last_move = {mov},
            !.ply = (@ + 1) % U16,
            !.rule50 = (@ + 1) % U8,
            !.en_passant_target = {},
            !.hash = IF b.state.en_passant_target # {}
                     THEN Xor(@, {EN_PASSANT_KEYS(to_file(unwrap(b.state.en_passant_target)))})
                     ELSE @,
            !.captured_piece = {}]]

\* remove piece from from, set piece in to
apply_relocate(w, us, mov) ==
    [w EXCEPT
        !.pieces[mov.piece] = Xor(@, {mov.from}) \cup {mov.to},
        !.occupancies[us] = Xor(@, {mov.from}) \cup {mov.to},
        !.combined = Xor(@, {mov.from}) \cup {mov.to},
        !.new_state.hash = Xor(Xor(@, {PIECE_KEYS(us, mov.piece, mov.from)}),
                               {PIECE_KEYS(us, mov.piece, mov.to)})]

\* the castling rights and their hash key after a rook left, reached or was taken on a square
\* the rights assigned from the table instead of masked by it
strip_rook_rights_assigning(st, from, to) ==
    LET rights == UPDATE_CASTLING_RIGHT_TABLE(from) \cap UPDATE_CASTLING_RIGHT_TABLE(to)
    IN  [st EXCEPT
            !.castling_rights = rights,
            !.hash = Xor(Xor(@, {CASTLE_KEYS(to_usize(st.castling_rights))}),
                         {CASTLE_KEYS(to_usize(rights))})]

strip_rook_rights(st, from, to) ==
    LET rights == (st.castling_rights \cap UPDATE_CASTLING_RIGHT_TABLE(from))
                    \cap UPDATE_CASTLING_RIGHT_TABLE(to)
    IN  [st EXCEPT
            !.castling_rights = rights,
            !.hash = Xor(Xor(@, {CASTLE_KEYS(to_usize(st.castling_rights))}),
                         {CASTLE_KEYS(to_usize(rights))})]

\* a capture that leaves the opponent's occupancy untouched
apply_capture_of_keeping_occupancy(w, us, mov, target_piece) ==
    LET w1 == [w EXCEPT
                  !.new_state.captured_piece = {target_piece},
                  !.pieces[target_piece] = IF target_piece # mov.piece THEN Xor(@, {mov.to}) ELSE @,
                  !.new_state.hash = Xor(@, {PIECE_KEYS(Not(us), target_piece, mov.to)})]
    IN  [w1 EXCEPT
            !.new_state = [(IF target_piece = Rook
                            THEN strip_rook_rights(@, mov.from, mov.to)
                            ELSE @) EXCEPT !.rule50 = 0]]

\* replace the opponent's piece with your own
apply_capture_of(w, us, mov, target_piece) ==
    LET w1 == [w EXCEPT
                  !.new_state.captured_piece = {target_piece},
                  !.pieces[target_piece] = IF target_piece # mov.piece THEN Xor(@, {mov.to}) ELSE @,
                  !.occupancies[Not(us)] = Xor(@, {mov.to}),
                  !.new_state.hash = Xor(@, {PIECE_KEYS(Not(us), target_piece, mov.to)})]
    IN  [w1 EXCEPT
            !.new_state = [(IF target_piece = Rook
                            THEN strip_rook_rights(@, mov.from, mov.to)
                            ELSE @) EXCEPT !.rule50 = 0]]

apply_capture(w, us, mov, target_piece) ==
    IF mov.flags = Capture THEN apply_capture_of(w, us, mov, unwrap(target_piece)) ELSE w

\* a promotion that adds the new piece type and leaves the pawn in place
apply_promotion_to_keeping_pawn(w, us, mov, promotion) ==
    [w EXCEPT
        !.pieces[promotion] = @ \cup {mov.to},
        !.new_state.hash = Xor(Xor(@, {PIECE_KEYS(us, mov.piece, mov.to)}),
                               {PIECE_KEYS(us, promotion, mov.to)})]

\* remove the old piece type, add the new piece type
apply_promotion_to(w, us, mov, promotion) ==
    LET w1 == [w EXCEPT !.pieces[mov.piece] = Xor(@, {mov.to})]
    IN  [w1 EXCEPT
            !.pieces[promotion] = @ \cup {mov.to},
            !.new_state.hash = Xor(Xor(@, {PIECE_KEYS(us, mov.piece, mov.to)}),
                                   {PIECE_KEYS(us, promotion, mov.to)})]

\* the promotion block left out
apply_promotion_skipped(w, us, mov) == w

apply_promotion(w, us, mov) ==
    IF mov.promotion # {} THEN apply_promotion_to(w, us, mov, unwrap(mov.promotion)) ELSE w

\* a double push that sets the target and leaves its key out of the hash
apply_double_push_without_key(w, us, mov) ==
    IF mov.flags = DoublePawnPush
    THEN [w EXCEPT !.new_state.en_passant_target = {unwrap(forward(mov.to, Not(us)))}]
    ELSE w

\* update en_passant_target when double pushing
apply_double_push(w, us, mov) ==
    IF mov.flags = DoublePawnPush
    THEN [w EXCEPT
            !.new_state.en_passant_target = {unwrap(forward(mov.to, Not(us)))},
            !.new_state.hash = Xor(@, {EN_PASSANT_KEYS(to_file(mov.to))})]
    ELSE w

\* take the pawn behind the target square
apply_en_passant_on(w, us, capture_piece) ==
    [w EXCEPT
        !.pieces[Pawn] = Xor(@, {capture_piece}),
        !.occupancies[Not(us)] = Xor(@, {capture_piece}),
        !.combined = Xor(@, {capture_piece}),
        !.new_state.hash = Xor(@, {PIECE_KEYS(Not(us), Pawn, capture_piece)})]

apply_en_passant(w, us, mov) ==
    IF mov.flags = EnPassant
    THEN apply_en_passant_on(w, us, unwrap(forward(mov.to, Not(us))))
    ELSE w

\* a rook set on its end square and left on its corner as well
apply_castling_rook_leaving_corner(w, us, rk) ==
    [w EXCEPT
        !.pieces[Rook] = @ \cup {rk.end},
        !.occupancies[us] = @ \cup {rk.end},
        !.combined = @ \cup {rk.end},
        !.new_state.hash = Xor(Xor(@, {PIECE_KEYS(us, Rook, rk.start)}),
                               {PIECE_KEYS(us, Rook, rk.end)})]

\* move the rook of a castling move
apply_castling_rook(w, us, rk) ==
    [w EXCEPT
        !.pieces[Rook] = Xor(@, {rk.start}) \cup {rk.end},
        !.occupancies[us] = Xor(@, {rk.start}) \cup {rk.end},
        !.combined = Xor(@, {rk.start}) \cup {rk.end},
        !.new_state.hash = Xor(Xor(@, {PIECE_KEYS(us, Rook, rk.start)}),
                               {PIECE_KEYS(us, Rook, rk.end)})]

apply_castling(w, us, mov) ==
    IF mov.flags = Castling THEN apply_castling_rook(w, us, castle_rook_squares(us, mov.to)) ELSE w

\* a pawn move resets the fifty-move counter
\* the reset made for pawn pushes only
apply_pawn_rule50_pushes_only(w, mov) ==
    IF mov.piece = Pawn /\ mov.flags \in {Normal, DoublePawnPush}
    THEN [w EXCEPT !.new_state.rule50 = 0]
    ELSE w

apply_pawn_rule50(w, mov) ==
    IF mov.piece = Pawn THEN [w EXCEPT !.new_state.rule50 = 0] ELSE w

\* a king move that clears the rights of both colors
strip_king_rights_of_both_colors(st, us) ==
    [st EXCEPT
        !.castling_rights = {},
        !.hash = Xor(Xor(@, {CASTLE_KEYS(to_usize(st.castling_rights))}),
                     {CASTLE_KEYS(to_usize({}))})]

\* the castling rights and their hash key after the king moved
strip_king_rights(st, us) ==
    LET rights == st.castling_rights \ (IF us = White THEN WHITE_BOTH_SIDES ELSE BLACK_BOTH_SIDES)
    IN  [st EXCEPT
            !.castling_rights = rights,
            !.hash = Xor(Xor(@, {CASTLE_KEYS(to_usize(st.castling_rights))}),
                         {CASTLE_KEYS(to_usize(rights))})]

\* update castling rights
apply_castling_rights(w, us, mov) ==
    IF mov.piece = Rook
    THEN [w EXCEPT !.new_state = strip_rook_rights(@, mov.from, mov.to)]
    ELSE IF mov.piece = King
    THEN [w EXCEPT !.new_state = strip_king_rights(@, us)]
    ELSE w

\* update side, pinned and checkers; push the old state
apply_finish(w, b, pc) ==
    [pieces |-> w.pieces,
     occupancies |-> w.occupancies,
     combined |-> w.combined,
     side_to_move |-> Not(b.side_to_move),
     history |-> Append(b.history, b.state),
     state |-> [w.new_state EXCEPT
                    !.hash = Xor(@, {SIDE_KEY}),
                    !.pinned = pc.pinned,
                    !.checkers = pc.checkers],
     game_ply |-> (b.game_ply + 1) % U16]

apply_side(w, b) ==
    apply_finish(w, b, recompute_pinned_checkers(w.pieces, w.occupancies, w.combined,
                                                 Not(b.side_to_move)))

apply_move(b, mov) ==
    apply_side(
      apply_castling_rights(
        apply_pawn_rule50(
          apply_castling(
            apply_en_passant(
              apply_double_push(
                apply_promotion(
                  apply_capture(
                    apply_relocate(apply_begin(b, mov), b.side_to_move, mov),
                    b.side_to_move, mov, piece_at(b, mov.to)),
                  b.side_to_move, mov),
                b.side_to_move, mov),
              b.side_to_move, mov),
            b.side_to_move, mov),
          mov),
        b.side_to_move, mov),
      b)

\* undo_move's subtraction that overflows: a debug build aborts, a release build wraps
undo_move_overflows(b) == b.game_ply - 1 < 0

\* undo_move works on the placement; us is the side that made the last move
undo_castling(w, us, last_move) ==
    IF last_move.flags = Castling
    THEN LET rk == castle_rook_squares(us, last_move.to)
         IN  [w EXCEPT
                !.pieces[Rook] = Xor(@ \cup {rk.start}, {rk.end}),
                !.occupancies[us] = Xor(@ \cup {rk.start}, {rk.end}),
                !.combined = Xor(@ \cup {rk.start}, {rk.end})]
    ELSE w

undo_promotion_of(w, last_move, promotion) ==
    LET w1 == [w EXCEPT !.pieces[last_move.piece] = @ \cup {last_move.to}]
    IN  [w1 EXCEPT !.pieces[promotion] = Xor(@, {last_move.to})]

undo_promotion(w, last_move) ==
    IF last_move.promotion # {}
    THEN undo_promotion_of(w, last_move, unwrap(last_move.promotion))
    ELSE w

undo_relocate(w, us, last_move) ==
    [w EXCEPT
        !.pieces[last_move.piece] = Xor(@ \cup {last_move.from}, {last_move.to}),
        !.occupancies[us] = Xor(@ \cup {last_move.from}, {last_move.to}),
        !.combined = Xor(@ \cup {last_move.from}, {last_move.to})]

\* a restore that, like the capture, skips the piece bitboard when both are of one kind
undo_capture_skipping_same_kind(w, us, last_move, captured_piece) ==
    IF captured_piece # {}
    THEN [w EXCEPT
            !.pieces[unwrap(captured_piece)] =
                IF unwrap(captured_piece) # last_move.piece THEN @ \cup {last_move.to} ELSE @,
            !.occupancies[Not(us)] = @ \cup {last_move.to},
            !.combined = @ \cup {last_move.to}]
    ELSE w

undo_capture(w, us, last_move, captured_piece) ==
    IF captured_piece # {}
    THEN [w EXCEPT
            !.pieces[unwrap(captured_piece)] = @ \cup {last_move.to},
            !.occupancies[Not(us)] = @ \cup {last_move.to},
            !.combined = @ \cup {last_move.to}]
    ELSE w

undo_en_passant_on(w, us, capture_piece) ==
    [w EXCEPT
        !.pieces[Pawn] = @ \cup {capture_piece},
        !.occupancies[Not(us)] = @ \cup {capture_piece},
        !.combined = @ \cup {capture_piece}]

undo_en_passant(w, us, last_move) ==
    IF last_move.flags = EnPassant
    THEN undo_en_passant_on(w, us, unwrap(forward(last_move.to, Not(us))))
    ELSE w

\* revert the last move from the current state
undo_last_move(b, last_move) ==
    [undo_en_passant(
       undo_capture(
         undo_relocate(
           undo_promotion(
             undo_castling(b, Not(b.side_to_move), last_move),
             last_move),
           Not(b.side_to_move), last_move),
         Not(b.side_to_move), last_move, b.state.captured_piece),
       Not(b.side_to_move), last_move)
     EXCEPT !.side_to_move = Not(b.side_to_move)]

\* decrement game_ply, pop the previous state if there is one
undo_pop(w) ==
    [w EXCEPT
        !.game_ply = (@ - 1) % U16,
        !.state = IF Len(w.history) > 0 THEN w.history[Len(w.history)] ELSE @,
        !.history = IF Len(@) > 0 THEN SubSeq(@, 1, Len(@) - 1) ELSE @]

\* impl PartialEq for Board
eq(self, other) ==
    /\ self.pieces = other.pieces
    /\ self.occupancies = other.occupancies
    /\ self.combined = other.combined
    /\ self.side_to_move = other.side_to_move

\* impl Hash for Board: the value written to the Hasher
hash(self) == self.state.hash

undo_move(b) ==
    undo_pop(IF b.state.last_move # {} THEN undo_last_move(b, unwrap(b.state.last_move)) ELSE b)

\* the test asking for a second earlier occurrence
is_repetition_counting_two(b) ==
    LET n == Len(b.history)
        k == IF b.state.rule50 < n THEN b.state.rule50 ELSE n
    IN  Cardinality({i \in (n - k + 1) .. n : b.history[i].hash = b.state.hash}) >= 2

is_repetition(b) ==
    LET n == Len(b.history)
        k == IF b.state.rule50 < n THEN b.state.rule50 ELSE n
    IN  \E i \in (n - k + 1) .. n : b.history[i].hash = b.state.hash

-----------------------------------------------------------------------------
(* Construction from the fields of a FEN *)

\* PartialBoard::generate_hash_key: the hash from scratch
generate_hash_key(pieces, occupancies, side_to_move, en_passant_target, castling_rights) ==
    LET placement == {PIECE_KEYS(c, p, s) : <<c, p, s>> \in
                        {x \in Color \X Piece \X Square : x[3] \in pieces[x[2]] \cap occupancies[x[1]]}}
        ep == IF en_passant_target # {}
              THEN {EN_PASSANT_KEYS(to_file(unwrap(en_passant_target)))}
              ELSE {}
        castle == {CASTLE_KEYS(to_usize(castling_rights))}
        side == IF side_to_move = Black THEN {SIDE_KEY} ELSE {}
    IN  Xor(Xor(Xor(placement, ep), castle), side)

\* the squares of the color's pieces that attack the square under the occupancy
attackers_of(pieces, occupancies, combined, square, color) ==
    ((get_bishop_attacks(square, combined) \cap (pieces[Bishop] \cup pieces[Queen]))
     \cup (get_rook_attacks(square, combined) \cap (pieces[Rook] \cup pieces[Queen]))
     \cup (get_knight_attacks(square) \cap pieces[Knight])
     \cup (get_pawn_attacks(square, Not(color)) \cap pieces[Pawn])
     \cup (get_king_attacks(square) \cap pieces[King]))
    \cap occupancies[color]

\* movgen::calculate_pinned_checkers_pinners: the checkers of the side to move's king
\* and the own pieces that alone shield it from an enemy slider
calculate_pinned_checkers_pinners(pieces, occupancies, combined, side_to_move) ==
    LET king_square == bit_scan(pieces[King] \cap occupancies[side_to_move])
        them == Not(side_to_move)
        sliders ==
            ((BishopLines[king_square] \cap (pieces[Bishop] \cup pieces[Queen]))
             \cup (RookLines[king_square] \cap (pieces[Rook] \cup pieces[Queen])))
            \cap occupancies[them]
    IN  [checkers |-> attackers_of(pieces, occupancies, combined, king_square, them) \ pieces[King],
         pinned |-> {s \in occupancies[side_to_move] :
                        \E x \in sliders : between(x, king_square) \cap combined = {s}}]

\* the decimal digits and their values
DigitValue == [c \in {"0", "1", "2", "3", "4", "5", "6", "7", "8", "9"} |->
                CASE c = "0" -> 0 [] c = "1" -> 1 [] c = "2" -> 2 [] c = "3" -> 3
                  [] c = "4" -> 4 [] c = "5" -> 5 [] c = "6" -> 6 [] c = "7" -> 7
                  [] c = "8" -> 8 [] c = "9" -> 9]

RECURSIVE decimal(_)
\* the number a sequence of digits denotes
decimal(digits) ==
    IF digits = <<>> THEN 0
    ELSE 10 * decimal(SubSeq(digits, 1, Len(digits) - 1)) + DigitValue[digits[Len(digits)]]

\* str::parse::<u16>: an optional +, then one digit or more, the value below 2^16;
\* None stands for the Err that map_err turns into BadFullMoveNumber
parse_u16(text) ==
    LET digits == IF text # <<>> /\ text[1] = "+" THEN Tail(text) ELSE text
    IN  IF digits = <<>> \/ \E i \in 1 .. Len(digits) : digits[i] \notin DOMAIN DigitValue
        THEN {}
        ELSE IF decimal(digits) >= U16 THEN {} ELSE {decimal(digits)}

\* the u16 arithmetic of game_ply leaves the range: a debug build aborts, a release
\* build wraps
from_str_overflows(side_to_move, fullmove_number) ==
    \/ fullmove_number - 1 < 0
    \/ 2 * (fullmove_number - 1) >= U16
    \/ 2 * (fullmove_number - 1) + ColorIdx[side_to_move] >= U16

\* impl FromStr for Board, after the six fields are split and parsed:
\* placement is the set of <<square, color, piece>> of the first field
from_str(placement, side_to_move, castling_rights, en_passant_target, halfmove_clock, fullmove_number) ==
    LET pieces == [p \in Piece |-> {x[1] : x \in {y \in placement : y[3] = p}}]
        occupancies == [c \in Color |-> {x[1] : x \in {y \in placement : y[2] = c}}]
        combined == {x[1] : x \in placement}
        pc == calculate_pinned_checkers_pinners(pieces, occupancies, combined, side_to_move)
    IN  [pieces |-> pieces,
         occupancies |-> occupancies,
         combined |-> combined,
         side_to_move |-> side_to_move,
         history |-> <<>>,
         state |-> [hash |-> generate_hash_key(pieces, occupancies, side_to_move,
                                                en_passant_target, castling_rights),
                    en_passant_target |-> en_passant_target,
                    castling_rights |-> castling_rights,
                    rule50 |-> halfmove_clock,
                    ply |-> 0,
                    checkers |-> pc.checkers,
                    pinned |-> pc.pinned,
                    last_move |-> {},
                    captured_piece |-> {}],
         game_ply |-> (((2 * ((fullmove_number - 1) % U16)) % U16)
                        + ColorIdx[side_to_move]) % U16]

-----------------------------------------------------------------------------
(* Move generation *)

\* every pawn, pinned or not
quiet_pawn_sources_ignoring_pins(current_sides_pawns, pinned, king_square) ==
    current_sides_pawns

\* only the pawns that are not pinned
quiet_pawn_unpinned_sources(current_sides_pawns, pinned, king_square) ==
    current_sides_pawns \ pinned

\* the pawns that can push: not pinned, or pinned with the king on the same file
quiet_pawn_movable_sources(current_sides_pawns, pinned, king_square) ==
    current_sides_pawns
    \cap ((Square \ pinned) \cup (pinned \cap mask_file(to_file(king_square))))

\* the pushes onto the back rank emitted as one move, to a queen
quiet_pawn_promotion_moves_queen_only(promotions, side_to_move) ==
    {Mv(unwrap(forward(target, Not(side_to_move))), target, Pawn, {Queen}, Normal) :
        target \in promotions}

\* the loop over promotions: one move for each piece of ALL_PROMOTIONS
quiet_pawn_promotion_moves(promotions, side_to_move) ==
    {Mv(unwrap(forward(tp[1], Not(side_to_move))), tp[1], Pawn, {ALL_PROMOTIONS[tp[2]]}, Normal) :
        tp \in promotions \X (1 .. Len(ALL_PROMOTIONS))}

\* the second step taken from the single pushes that already passed the push mask
quiet_pawn_double_push_through_mask(single_push, forward_shift, combined, side_to_move, push_mask) ==
    ((shift(single_push \cap push_mask, forward_shift) \ combined)
     \cap mask_rank(double_pawn_push_rank(side_to_move))) \cap push_mask

\* the single pushes moved one square further, onto free squares of the double
\* push rank that pass the push mask
quiet_pawn_double_push_targets(single_push, forward_shift, combined, side_to_move, push_mask) ==
    ((shift(single_push, forward_shift) \ combined)
     \cap mask_rank(double_pawn_push_rank(side_to_move))) \cap push_mask

\* QuietPawnMoveGenerator::generate::<CHECK>
QuietPawnMoveGenerator(b, CHECK) ==
    LET side_to_move == b.side_to_move
        current_sides_pawns == b.pieces[Pawn] \cap b.occupancies[side_to_move]
        pinned == b.state.pinned
        king_square == bit_scan(b.pieces[King] \cap b.occupancies[side_to_move])
        push_mask == IF CHECK
                     THEN between(king_square, bit_scan(b.state.checkers))
                     ELSE Square \ EMPTY
        movable_sources == quiet_pawn_movable_sources(current_sides_pawns, pinned, king_square)
        forward_shift == 8 - 16 * ColorIdx[side_to_move]
        single_push == shift(movable_sources, forward_shift) \ b.combined
        single_push_targets == single_push \cap push_mask
        double_push_targets ==
            quiet_pawn_double_push_targets(single_push, forward_shift, b.combined,
                                           side_to_move, push_mask)
        promotion_rank == mask_rank(backrank(Not(side_to_move)))
        non_promotions == single_push_targets \ promotion_rank
        promotions == single_push_targets \cap promotion_rank
        back(target) == unwrap(forward(target, Not(side_to_move)))
    IN  quiet_pawn_promotion_moves(promotions, side_to_move)
        \cup {Mv(back(back(target)), target, Pawn, {}, DoublePawnPush) :
                target \in double_push_targets}
        \cup {Mv(back(target), target, Pawn, {}, Normal) : target \in non_promotions}

\* the occupancy keeps the captured pawn
valid_ep_keeping_captured(b, capture, source, destination) ==
    LET combined == (b.combined \ {source}) \cup {destination}
        king_square == bit_scan(b.pieces[King] \cap b.occupancies[b.side_to_move])
        attack ==
            ((get_rook_attacks(king_square, combined) \cap (b.pieces[Rook] \cup b.pieces[Queen]))
                \cap b.occupancies[Not(b.side_to_move)])
            \cup ((get_bishop_attacks(king_square, combined)
                    \cap (b.pieces[Bishop] \cup b.pieces[Queen]))
                \cap b.occupancies[Not(b.side_to_move)])
    IN  attack = EMPTY

\* only the king's rank and file are tested
valid_ep_rook_lines_only(b, capture, source, destination) ==
    LET combined == ((b.combined \ {capture}) \ {source}) \cup {destination}
        king_square == bit_scan(b.pieces[King] \cap b.occupancies[b.side_to_move])
        attack ==
            (get_rook_attacks(king_square, combined) \cap (b.pieces[Rook] \cup b.pieces[Queen]))
                \cap b.occupancies[Not(b.side_to_move)]
    IN  attack = EMPTY

\* EnPassantMoveGenerator::valid_ep
valid_ep(b, capture, source, destination) ==
    LET combined == ((b.combined \ {capture}) \ {source}) \cup {destination}
        king_square == bit_scan(b.pieces[King] \cap b.occupancies[b.side_to_move])
        attack ==
            ((get_rook_attacks(king_square, combined) \cap (b.pieces[Rook] \cup b.pieces[Queen]))
                \cap b.occupancies[Not(b.side_to_move)])
            \cup ((get_bishop_attacks(king_square, combined)
                    \cap (b.pieces[Bishop] \cup b.pieces[Queen]))
                \cap b.occupancies[Not(b.side_to_move)])
    IN  attack = EMPTY

\* EnPassantMoveGenerator::generate::<CHECK>
EnPassantMoveGenerator(b, CHECK) ==
    IF b.state.en_passant_target = {} THEN {}
    ELSE LET ep_square == unwrap(b.state.en_passant_target)
             side_to_move == b.side_to_move
             current_sides_pawns == b.pieces[Pawn] \cap b.occupancies[side_to_move]
         IN  {Mv(sd[1], sd[2], Pawn, {}, EnPassant) : sd \in
                {x \in current_sides_pawns \X {ep_square} :
                    /\ x[2] \in get_pawn_attacks(x[1], side_to_move)
                    /\ valid_ep(b, unwrap(forward(x[2], Not(side_to_move))), x[1], x[2])}}


\* the mover's king is not attacked once the move is made
king_safe(nb, us) ==
    attackers_of(nb.pieces, nb.occupancies, nb.combined,
                 bit_scan(nb.pieces[King] \cap nb.occupancies[us]), Not(us)) = {}

leaves_king_safe(b, mov) == king_safe(apply_move(b, mov), b.side_to_move)

\* the squares a piece of the kind on the square attacks under the occupancy
piece_attacks(piece, s, occ) ==
    CASE piece = Knight -> get_knight_attacks(s)
      [] piece = Bishop -> get_bishop_attacks(s, occ)
      [] piece = Rook -> get_rook_attacks(s, occ)
      [] piece = Queen -> get_bishop_attacks(s, occ) \cup get_rook_attacks(s, occ)
      [] piece = King -> get_king_attacks(s)

\* knight, bishop, rook, queen and king generators: the legal moves of the piece kind
PieceMoveGenerator(b, piece) ==
    LET us == b.side_to_move
        them == Not(us)
        sources == b.pieces[piece] \cap b.occupancies[us]
        targets(s) == (piece_attacks(piece, s, b.combined) \ b.occupancies[us]) \ b.pieces[King]
        pseudo == {Mv(st[1], st[2], piece, {},
                      IF st[2] \in b.occupancies[them] THEN Capture ELSE Normal) :
                   st \in {x \in sources \X Square : x[2] \in targets(x[1])}}
    IN  {m \in pseudo : leaves_king_safe(b, m)}

\* pawn capture generator: the legal diagonal captures, four per capture onto the back rank
PawnCaptureMoveGenerator(b) ==
    LET us == b.side_to_move
        them == Not(us)
        sources == b.pieces[Pawn] \cap b.occupancies[us]
        victims == b.occupancies[them] \ b.pieces[King]
        pairs == {x \in sources \X victims : x[2] \in get_pawn_attacks(x[1], us)}
        promoting == {x \in pairs : to_rank(x[2]) = backrank(them)}
        pseudo == {Mv(x[1], x[2], Pawn, {}, Capture) : x \in pairs \ promoting}
                  \cup {Mv(xi[1][1], xi[1][2], Pawn, {ALL_PROMOTIONS[xi[2]]}, Capture) :
                          xi \in promoting \X (1 .. Len(ALL_PROMOTIONS))}
    IN  {m \in pseudo : leaves_king_safe(b, m)}

\* castling generator: right set, king and rook at home, nothing between them,
\* the king's start, transit and destination squares not attacked
CastlingMoveGenerator(b) ==
    LET us == b.side_to_move
        them == Not(us)
        r == backrank(us)
        king_home == SquareFrom(r, FileIdx["e"])
        safe(s) == attackers_of(b.pieces, b.occupancies, b.combined, s, them) = {}
        can(right, rook_file, king_to_file) ==
            LET rook_home == SquareFrom(r, rook_file)
                king_to == SquareFrom(r, king_to_file)
            IN  /\ right \in b.state.castling_rights
                /\ king_home \in b.pieces[King] \cap b.occupancies[us]
                /\ rook_home \in b.pieces[Rook] \cap b.occupancies[us]
                /\ between(king_home, rook_home) \cap b.combined = {}
                /\ \A s \in {king_home, king_to} \cup between(king_home, king_to) : safe(s)
        kingside == IF us = White THEN WK ELSE BK
        queenside == IF us = White THEN WQ ELSE BQ
    IN  (IF can(kingside, FileIdx["h"], FileIdx["g"])
         THEN {Mv(king_home, SquareFrom(r, FileIdx["g"]), King, {}, Castling)} ELSE {})
        \cup (IF can(queenside, FileIdx["a"], FileIdx["c"])
              THEN {Mv(king_home, SquareFrom(r, FileIdx["c"]), King, {}, Castling)} ELSE {})

\* movgen::generate_moves: in double check only king moves, else every generator,
\* with CHECK set when the side to move is in check
generate_moves(b) ==
    LET n == Cardinality(b.state.checkers)
    IN  IF n >= 2 THEN PieceMoveGenerator(b, King)
        ELSE UNION {PieceMoveGenerator(b, p) : p \in {Knight, Bishop, Rook, Queen, King}}
             \cup PawnCaptureMoveGenerator(b)
             \cup QuietPawnMoveGenerator(b, n = 1)
             \cup EnPassantMoveGenerator(b, n = 1)
             \cup (IF n = 0 THEN CastlingMoveGenerator(b) ELSE {})

-----------------------------------------------------------------------------
(* The boards the exploration starts from *)

W(piece, f, r) == <<S(f, r), White, piece>>
B(piece, f, r) == <<S(f, r), Black, piece>>

\* 4k2r/8/8/8/8/8/8/4K2R w Kk - 0 3
FenCastleKingside ==
    from_str({W(King, "e", 1), W(Rook, "h", 1), B(King, "e", 8), B(Rook, "h", 8)},
             White, {WK, BK}, {}, 0, 3)
\* r3k3/p7/8/8/8/8/P7/R3K3 b Qq - 3 3
FenCastleQueenside ==
    from_str({W(King, "e", 1), W(Rook, "a", 1), W(Pawn, "a", 2),
              B(King, "e", 8), B(Rook, "a", 8), B(Pawn, "a", 7)},
             Black, {WQ, BQ}, {}, 3, 3)
\* 8/8/k7/8/2Pp4/8/8/3K4 b - c3 0 1
FenEnPassant ==
    from_str({W(King, "d", 1), W(Pawn, "c", 4), B(King, "a", 6), B(Pawn, "d", 4)},
             Black, {}, {S("c", 3)}, 0, 1)
\* 8/8/8/8/k1Pp3R/8/8/3K4 b - c3 0 3
FenEnPassantHorizontal ==
    from_str({W(King, "d", 1), W(Pawn, "c", 4), W(Rook, "h", 4),
              B(King, "a", 4), B(Pawn, "d", 4)},
             Black, {}, {S("c", 3)}, 0, 3)
\* 8/8/8/8/k2p3R/8/2P5/3K4 w - - 0 3
FenEnPassantHorizontalPlay ==
    from_str({W(King, "d", 1), W(Pawn, "c", 2), W(Rook, "h", 4),
              B(King, "a", 4), B(Pawn, "d", 4)},
             White, {}, {}, 0, 3)
\* 5q1k/8/8/4pP2/8/8/8/5K2 w - e6 0 3
FenEnPassantVertical ==
    from_str({W(King, "f", 1), W(Pawn, "f", 5), B(King, "h", 8), B(Queen, "f", 8),
              B(Pawn, "e", 5)},
             White, {}, {S("e", 6)}, 0, 3)
\* k7/7q/8/4pP2/8/8/8/1K6 w - e6 0 3
FenEnPassantDiagonal ==
    from_str({W(King, "b", 1), W(Pawn, "f", 5), B(King, "a", 8), B(Queen, "h", 7),
              B(Pawn, "e", 5)},
             White, {}, {S("e", 6)}, 0, 3)
\* 4k3/2p5/8/1P1P4/8/8/8/4K3 b - - 0 3
FenDoublePush ==
    from_str({W(King, "e", 1), W(Pawn, "b", 5), W(Pawn, "d", 5), B(King, "e", 8),
              B(Pawn, "c", 7)},
             Black, {}, {}, 0, 3)
\* 1r2k3/P7/8/8/8/8/8/4K3 w - - 7 3
FenPromotion ==
    from_str({W(King, "e", 1), W(Pawn, "a", 7), B(King, "e", 8), B(Rook, "b", 8)},
             White, {}, {}, 7, 3)
\* 6k1/8/8/8/K6r/8/4P3/8 w - - 0 3
FenCheckBlock ==
    from_str({W(King, "a", 4), W(Pawn, "e", 2), B(King, "g", 8), B(Rook, "h", 4)},
             White, {}, {}, 0, 3)
\* 1K4k1/8/8/1P6/8/1r6/8/8 w - - 0 3
FenFilePin ==
    from_str({W(King, "b", 8), W(Pawn, "b", 5), B(King, "g", 8), B(Rook, "b", 3)},
             White, {}, {}, 0, 3)
\* 6k1/8/5b2/8/8/1P6/1P6/K7 w - - 0 3
FenBishopPin ==
    from_str({W(King, "a", 1), W(Pawn, "b", 2), W(Pawn, "b", 3), B(King, "g", 8),
              B(Bishop, "f", 6)},
             White, {}, {}, 0, 3)
\* 7k/8/8/8/8/2n5/3N4/K7 b - - 0 3
FenKnights ==
    from_str({W(King, "a", 1), W(Knight, "d", 2), B(King, "h", 8), B(Knight, "c", 3)},
             Black, {}, {}, 0, 3)
\* 5K2/8/8/8/8/8/8/5k2 w - - 0 1
FenKings ==
    from_str({W(King, "f", 8), B(King, "f", 1)}, White, {}, {}, 0, 1)

\* 4k3/8/8/4n3/8/3p4/8/4K3 b - - 0 3
FenPawnKnightCheck ==
    from_str({W(King, "e", 1), B(King, "e", 8), B(Knight, "e", 5), B(Pawn, "d", 3)},
             Black, {}, {}, 0, 3)

\* 4k3/8/8/4n3/8/3p4/P7/4K3 b - - 0 3
FenCheckNoBlock ==
    from_str({W(King, "e", 1), W(Pawn, "a", 2), B(King, "e", 8), B(Knight, "e", 5),
              B(Pawn, "d", 3)},
             Black, {}, {}, 0, 3)

\* r3k3/1K6/8/8/8/8/8/8 w q - 0 3
FenKingTakesRook ==
    from_str({W(King, "b", 7), B(King, "e", 8), B(Rook, "a", 8)}, White, {BQ}, {}, 0, 3)

\* 4k3/6Pp/8/8/8/8/p7/4K3 b - - 0 3
FenPromotionBothSides ==
    from_str({W(King, "e", 1), W(Pawn, "g", 7), B(King, "e", 8), B(Pawn, "h", 7),
              B(Pawn, "a", 2)},
             Black, {}, {}, 0, 3)

\* k7/8/1Q6/8/8/8/8/7K b - - 0 50
FenStalemate ==
    from_str({W(King, "h", 1), W(Queen, "b", 6), B(King, "a", 8)}, Black, {}, {}, 0, 50)

\* 4k3/2p5/8/1P6/3K4/8/8/8 b - - 0 3
FenPushGivesCheck ==
    from_str({W(King, "d", 4), W(Pawn, "b", 5), B(King, "e", 8), B(Pawn, "c", 7)},
             Black, {}, {}, 0, 3)

\* 1b2k3/2p5/8/1P6/8/8/7K/8 b - - 0 3
FenPushDiscoversCheck ==
    from_str({W(King, "h", 2), W(Pawn, "b", 5), B(King, "e", 8), B(Bishop, "b", 8),
              B(Pawn, "c", 7)},
             Black, {}, {}, 0, 3)

InitBoards ==
    {FenCastleKingside, FenCastleQueenside, FenEnPassant, FenEnPassantHorizontal, FenEnPassantHorizontalPlay,
     FenEnPassantVertical, FenEnPassantDiagonal, FenDoublePush, FenPromotion,
     FenCheckBlock, FenFilePin, FenBishopPin, FenKnights, FenKings, FenPawnKnightCheck,
     FenPromotionBothSides, FenCheckNoBlock, FenKingTakesRook, FenPushGivesCheck,
     FenPushDiscoversCheck}

\* the number of moves applied and not undone the exploration goes to
MaxPly == 2
\* undo_move on an empty history is explored for boards whose game_ply is at most this
MaxEmptyUndoPly == 1

-----------------------------------------------------------------------------
(* The board's operations *)

BoardInit ==
    /\ board \in InitBoards
    /\ panicked = FALSE

\* Board::apply_move of a generated move
ApplyMove ==
    /\ ~panicked
    /\ Len(board.history) < MaxPly
    /\ \E mov \in generate_moves(board) :
         IF apply_move_aborts(board, mov)
         THEN panicked' = TRUE /\ board' = board
         ELSE IF apply_move_overflows(board)
         THEN \/ panicked' = TRUE /\ board' = board
              \/ panicked' = FALSE /\ board' = apply_move(board, mov)
         ELSE panicked' = FALSE /\ board' = apply_move(board, mov)
    /\ UNCHANGED <<searcherVars, evalVars>>

\* Board::undo_move
UndoMove ==
    /\ ~panicked
    /\ Len(board.history) > 0 \/ board.game_ply <= MaxEmptyUndoPly
    /\ IF undo_move_overflows(board)
       THEN \/ panicked' = TRUE /\ board' = board
            \/ panicked' = FALSE /\ board' = undo_move(board)
       ELSE panicked' = FALSE /\ board' = undo_move(board)
    /\ UNCHANGED <<searcherVars, evalVars>>

-----------------------------------------------------------------------------
(* The search coordinator and its worker thread *)

(* chan is the mpsc channel, stop the AtomicBool, table_lock the holder of the  *)
(* transposition table's mutex, worker and caller the positions of the two       *)
(* threads, current the task the worker took.  sent, received, emitted and       *)
(* cancel_requested record what happened: the tasks in start order, the tasks    *)
(* the worker took, the bestmove lines, and the tasks that were started and not  *)
(* yet answered when stop was called.                                            *)

\* the number of search tasks the caller starts
MaxTasks == 2

NewSearchTask(id, bounded) == [type |-> "NewSearchTask", id |-> id, bounded |-> bounded]
Quit == [type |-> "Quit", id |-> 0, bounded |-> TRUE]
NoTask == [id |-> 0, bounded |-> TRUE, ended |-> "none"]

SearcherInit ==
    /\ chan = <<>>
    /\ stop = FALSE
    /\ worker = "recv"
    /\ current = NoTask
    /\ table_lock = "free"
    /\ caller = "ready"
    /\ sent = <<>>
    /\ emitted = <<>>
    /\ received = <<>>
    /\ cancel_requested = {}

Range(seq) == {seq[i] : i \in 1 .. Len(seq)}
\* the tasks started and not yet answered by a bestmove
Unanswered == Range(sent) \ {e.id : e \in Range(emitted)}

\* a channel that hands out the newest message first
chan_recv_newest(ch) == [message |-> ch[Len(ch)], rest |-> SubSeq(ch, 1, Len(ch) - 1)]

\* Receiver::recv on a non-empty channel: the oldest message
chan_recv(ch) == [message |-> Head(ch), rest |-> Tail(ch)]

\* AtomicBool::store(true) of stop_search
stop_store_true ==
    /\ stop' = TRUE
    /\ cancel_requested' = cancel_requested \cup Unanswered

\* the worker thread has unwound and dropped the Receiver it owned: Sender::send
\* returns Err(SendError)
receiver_dropped == worker = "panicked"

\* Searcher::initiate_search: send(...).expect("could not send new search task")
InitiateSearch ==
    /\ caller = "ready"
    /\ Len(sent) < MaxTasks
    /\ IF receiver_dropped
       THEN /\ caller' = "send_panicked"
            /\ UNCHANGED <<chan, sent>>
       ELSE /\ \E bounded \in BOOLEAN :
                 chan' = Append(chan, NewSearchTask(Len(sent) + 1, bounded))
            /\ sent' = Append(sent, Len(sent) + 1)
            /\ UNCHANGED caller
    /\ UNCHANGED <<stop, worker, current, table_lock, emitted, received,
                   cancel_requested, boardVars, evalVars>>

\* Searcher::stop_search
StopSearch ==
    /\ caller = "ready"
    /\ stop_store_true
    /\ UNCHANGED <<chan, worker, current, table_lock, caller, sent, emitted, received,
                   boardVars, evalVars>>

\* Searcher::clear_tables: the call, which then waits for the mutex
ClearTablesCall ==
    /\ caller = "ready"
    /\ caller' = "clear_wait"
    /\ UNCHANGED <<chan, stop, worker, current, table_lock, sent, emitted, received,
                   cancel_requested, boardVars, evalVars>>

\* Searcher::clear_tables: the mutex is taken and the table cleared; lock() of a
\* mutex poisoned by the worker's panic returns Err and unwrap() panics
ClearTablesLocked ==
    /\ caller = "clear_wait"
    /\ table_lock \in {"free", "poisoned"}
    /\ IF table_lock = "poisoned"
       THEN table_lock' = table_lock /\ caller' = "lock_panicked"
       ELSE table_lock' = "caller" /\ caller' = "clearing"
    /\ UNCHANGED <<chan, stop, worker, current, sent, emitted, received,
                   cancel_requested, boardVars, evalVars>>

\* Searcher::clear_tables: the guard is dropped and the call returns
ClearTablesReturn ==
    /\ caller = "clearing"
    /\ table_lock' = "free"
    /\ caller' = "ready"
    /\ UNCHANGED <<chan, stop, worker, current, sent, emitted, received,
                   cancel_requested, boardVars, evalVars>>

\* Drop for Searcher: stop_search
DropStop ==
    /\ caller = "ready"
    /\ stop_store_true
    /\ caller' = "drop_send"
    /\ UNCHANGED <<chan, worker, current, table_lock, sent, emitted, received, boardVars, evalVars>>

\* Drop for Searcher: send(Quit).expect("could not send quit message")
DropSendQuit ==
    /\ caller = "drop_send"
    /\ IF receiver_dropped
       THEN chan' = chan /\ caller' = "send_panicked"
       ELSE chan' = Append(chan, Quit) /\ caller' = "drop_join"
    /\ UNCHANGED <<stop, worker, current, table_lock, sent, emitted, received,
                   cancel_requested, boardVars, evalVars>>

\* Drop for Searcher: join returns once the worker thread has ended, with Err
\* when it ended by a panic: expect("could not join main search thread")
DropJoin ==
    /\ caller = "drop_join"
    /\ worker \in {"exited", "panicked"}
    /\ caller' = IF worker = "panicked" THEN "join_panicked" ELSE "dropped"
    /\ UNCHANGED <<chan, stop, worker, current, table_lock, sent, emitted, received,
                   cancel_requested, boardVars, evalVars>>

\* worker: receiver.recv() returns a message; Quit breaks the loop
WorkerRecv ==
    /\ worker = "recv"
    /\ chan # <<>>
    /\ chan' = chan_recv(chan).rest
    /\ IF chan_recv(chan).message.type = "Quit"
       THEN /\ worker' = "exited"
            /\ UNCHANGED <<current, received>>
       ELSE /\ worker' = "clear_stop"
            /\ current' = [id |-> chan_recv(chan).message.id,
                           bounded |-> chan_recv(chan).message.bounded,
                           ended |-> "none"]
            /\ received' = Append(received, chan_recv(chan).message.id)
    /\ UNCHANGED <<stop, table_lock, caller, sent, emitted, cancel_requested, boardVars, evalVars>>

\* worker: stop.store(false)
WorkerClearStop ==
    /\ worker = "clear_stop"
    /\ stop' = FALSE
    /\ worker' = "lock"
    /\ UNCHANGED <<chan, current, table_lock, caller, sent, emitted, received,
                   cancel_requested, boardVars, evalVars>>

\* a worker whose guard is a temporary dropped at the end of the lock statement
WorkerLockDroppedAtOnce ==
    /\ worker = "lock"
    /\ table_lock = "free"
    /\ table_lock' = "free"
    /\ worker' = "search"
    /\ UNCHANGED <<chan, stop, current, caller, sent, emitted, received,
                   cancel_requested, boardVars, evalVars>>

\* worker: table.lock()
WorkerLock ==
    /\ worker = "lock"
    /\ table_lock = "free"
    /\ table_lock' = "worker"
    /\ worker' = "search"
    /\ UNCHANGED <<chan, stop, current, caller, sent, emitted, received,
                   cancel_requested, boardVars, evalVars>>

\* Search::find_best_move polls the stop flag between nodes and returns when it is set
SearchCancelled ==
    /\ worker = "search"
    /\ stop
    /\ current' = [current EXCEPT !.ended = "cancelled"]
    /\ worker' = "emit"
    /\ UNCHANGED <<chan, stop, table_lock, caller, sent, emitted, received,
                   cancel_requested, boardVars, evalVars>>

\* Search::find_best_move reaches the end of bounded limits
SearchCompleted ==
    /\ worker = "search"
    /\ ~stop
    /\ current.bounded
    /\ current' = [current EXCEPT !.ended = "completed"]
    /\ worker' = "emit"
    /\ UNCHANGED <<chan, stop, table_lock, caller, sent, emitted, received,
                   cancel_requested, boardVars, evalVars>>

\* a worker that prints nothing for a cancelled search
WorkerEmitUnlessCancelled ==
    /\ worker = "emit"
    /\ generate_moves(board) # {}
    /\ emitted' = IF current.ended = "cancelled" THEN emitted
                  ELSE Append(emitted, [id |-> current.id, ended |-> current.ended])
    /\ worker' = "unlock"
    /\ UNCHANGED <<chan, stop, current, table_lock, caller, sent, received,
                   cancel_requested, boardVars, evalVars>>

\* worker: println!("bestmove {}", pick.chess_move.unwrap()), with a move to print
WorkerEmit ==
    /\ worker = "emit"
    /\ generate_moves(board) # {}
    /\ emitted' = Append(emitted, [id |-> current.id, ended |-> current.ended])
    /\ worker' = "unlock"
    /\ UNCHANGED <<chan, stop, current, table_lock, caller, sent, received,
                   cancel_requested, boardVars, evalVars>>

\* worker: pick.chess_move.unwrap() of a search that had no legal move to pick.
\* The thread unwinds: the guard is dropped while panicking, which poisons the
\* mutex, and the Receiver is dropped with the closure.
WorkerEmitPanics ==
    /\ worker = "emit"
    /\ generate_moves(board) = {}
    /\ worker' = "panicked"
    /\ table_lock' = "poisoned"
    /\ UNCHANGED <<chan, stop, current, caller, sent, emitted, received,
                   cancel_requested, boardVars, evalVars>>

\* a worker that resets the flag once the bestmove is out
WorkerUnlockClearingStop ==
    /\ worker = "unlock"
    /\ table_lock' = "free"
    /\ worker' = "recv"
    /\ stop' = FALSE
    /\ UNCHANGED <<chan, current, caller, sent, emitted, received,
                   cancel_requested, boardVars, evalVars>>

\* a worker that keeps the guard across the loop
WorkerUnlockKeepingGuard ==
    /\ worker = "unlock"
    /\ table_lock' = table_lock
    /\ worker' = "recv"
    /\ UNCHANGED <<chan, stop, current, caller, sent, emitted, received,
                   cancel_requested, boardVars, evalVars>>

\* worker: the mutex guard is dropped at the end of the match arm
WorkerUnlock ==
    /\ worker = "unlock"
    /\ table_lock' = "free"
    /\ worker' = "recv"
    /\ UNCHANGED <<chan, stop, current, caller, sent, emitted, received,
                   cancel_requested, boardVars, evalVars>>

-----------------------------------------------------------------------------
(* Evaluation: mate scores and their rescaling for the transposition table *)

(* rescale is one passage of a mate score through the table: the score eval of a   *)
(* mate by color at original_depth plies is stored at store_ply (stored) and read  *)
(* back at retrieve_ply (retrieved); a failed assert! leaves stage "aborted".      *)

IMMEDIATE_MATE_SCORE == 100000
MAX_MATE_DEPTH == 100

\* i32::signum
signum(x) == IF x > 0 THEN 1 ELSE IF x < 0 THEN -1 ELSE 0

\* Evaluation::is_mate
is_mate(e) == Abs(e) > (IMMEDIATE_MATE_SCORE - MAX_MATE_DEPTH)

\* Evaluation::new_mate_eval
new_mate_eval(mating_color, ply_from_root) ==
    (IF mating_color = White THEN 1 ELSE -1) * (IMMEDIATE_MATE_SCORE - ply_from_root)

\* the stored score with the sign dropped
score_to_tt_unsigned(e, ply) == Abs(e) + ply

\* Evaluation::score_to_tt, past its assert
score_to_tt(e, ply) == (Abs(e) + ply) * signum(e)

\* the read that adds the ply like the write
tt_to_score_adding(e, ply) == (Abs(e) + ply) * signum(e)

\* Evaluation::tt_to_score, past its assert
tt_to_score(e, ply) == (Abs(e) - ply) * signum(e)

\* the plies the passages are explored for, from 0
MaxMatePly == 3

\* depths of a mate: the first ones and the last ones that still are mate scores
MateDepths == (0 .. MaxMatePly) \cup ((MAX_MATE_DEPTH - 1 - MaxMatePly) .. (MAX_MATE_DEPTH - 1))

RescaleIdle ==
    rescale = [stage |-> "idle", color |-> White, original_depth |-> 0, store_ply |-> 0,
               retrieve_ply |-> 0, eval |-> {}, stored |-> {}, retrieved |-> {}]

(* probe is one call of a function of the engine on its own: the call, its      *)
(* arguments and, once it returned, its result                                  *)
ProbeIdle ==
    probe = [call |-> "none"]

\* Evaluation::MIN and Evaluation::MAX: i32::MIN + 1 and i32::MAX
MIN == -2147483647
MAX == 2147483647

\* Evaluation::mated_in
mated_in(ply_from_root) == (-IMMEDIATE_MATE_SCORE) + ply_from_root

\* Evaluation::mate_in
mate_in(ply_from_root) == IMMEDIATE_MATE_SCORE - ply_from_root

raw_piece_value(piece) ==
    CASE piece = Pawn -> 100
      [] piece = Knight -> 320
      [] piece = Bishop -> 330
      [] piece = Rook -> 500
      [] piece = Queen -> 900
      [] piece = King -> 20000

\* the positional bonus of a piece of the color on the square, read from the
\* color's own side of the board: a pawn gains with every rank it has advanced
piece_square_table(piece, square, piece_color) ==
    LET relative_rank == IF piece_color = White THEN to_rank(square) ELSE 7 - to_rank(square)
    IN  IF piece = Pawn THEN 5 * (relative_rank - 1) ELSE 0

piece_value(piece, square, piece_color) ==
    (IF piece_color = White THEN 1 ELSE -1)
        * (raw_piece_value(piece) + piece_square_table(piece, square, piece_color))

RECURSIVE sum(_, _)
\* result += f[x] for every x of the set
sum(f, set) ==
    IF set = {} THEN 0
    ELSE LET x == CHOOSE y \in set : TRUE
         IN  f[x] + sum(f, set \ {x})

\* engine::evaluation::board_value
board_value(b) ==
    LET placed == {ps \in Piece \X Square : ps[2] \in b.pieces[ps[1]]}
    IN  sum([ps \in placed |-> piece_value(ps[1], ps[2], unwrap(color_at(b, ps[2])))], placed)

-----------------------------------------------------------------------------
(* Specifications *)

SearcherBoard ==
    /\ board = FenKings
    /\ panicked = FALSE

CallerNext ==
    \/ InitiateSearch
    \/ StopSearch
    \/ ClearTablesCall
    \/ ClearTablesLocked
    \/ ClearTablesReturn
    \/ DropStop
    \/ DropSendQuit
    \/ DropJoin

WorkerNext ==
    \/ WorkerRecv
    \/ WorkerClearStop
    \/ WorkerLock
    \/ SearchCancelled
    \/ SearchCompleted
    \/ WorkerEmit
    \/ WorkerUnlock

SearcherSpecInit == SearcherBoard /\ SearcherInit /\ RescaleIdle /\ ProbeIdle
SearcherNext == CallerNext \/ WorkerNext
SearcherSpec == SearcherSpecInit /\ [][SearcherNext]_vars

\* the position handed to the searches: one with legal moves, or one without
ClosedInit ==
    /\ board \in {FenKings, FenStalemate}
    /\ panicked = FALSE
    /\ SearcherInit
    /\ RescaleIdle
    /\ ProbeIdle

ClosedNext == SearcherNext \/ WorkerEmitPanics
ClosedSpec == ClosedInit /\ [][ClosedNext]_vars

\* a mate score found by the search at original_depth plies
RescaleInit ==
    \E color \in Color, original_depth \in MateDepths,
       store_ply \in 0 .. MaxMatePly, retrieve_ply \in 0 .. MaxMatePly :
        rescale = [stage |-> "found", color |-> color, original_depth |-> original_depth,
                   store_ply |-> store_ply, retrieve_ply |-> retrieve_ply,
                   eval |-> {new_mate_eval(color, original_depth)},
                   stored |-> {}, retrieved |-> {}]

\* the score is written to the table: assert!(self.is_mate()), then score_to_tt
StoreScore ==
    /\ rescale.stage = "found"
    /\ rescale' =
         IF is_mate(unwrap(rescale.eval))
         THEN [rescale EXCEPT !.stage = "stored",
                              !.stored = {score_to_tt(unwrap(rescale.eval), rescale.store_ply)}]
         ELSE [rescale EXCEPT !.stage = "aborted"]
    /\ UNCHANGED <<boardVars, searcherVars, probe>>

\* the score is read from the table: assert!(self.is_mate()), then tt_to_score
RetrieveScore ==
    /\ rescale.stage = "stored"
    /\ rescale' =
         IF is_mate(unwrap(rescale.stored))
         THEN [rescale EXCEPT !.stage = "retrieved",
                              !.retrieved = {tt_to_score(unwrap(rescale.stored),
                                                         rescale.retrieve_ply)}]
         ELSE [rescale EXCEPT !.stage = "aborted"]
    /\ UNCHANGED <<boardVars, searcherVars, probe>>

EvalInit == SearcherBoard /\ SearcherInit /\ RescaleInit /\ ProbeIdle
EvalNext == StoreScore \/ RetrieveScore
EvalSpec == EvalInit /\ [][EvalNext]_vars

\* the largest ordinary evaluation the classification is explored for
MaxScore == 20

\* the ply counts of the mates that are classified: the nearest ones and the ones
\* around MAX_MATE_DEPTH
ClassifiedDepths ==
    (0 .. MaxMatePly) \cup ((MAX_MATE_DEPTH - MaxMatePly) .. (MAX_MATE_DEPTH + MaxMatePly))

\* the scores that are classified: mates, ordinary evaluations, the search bounds
ClassifiedScores ==
    {mate_in(p) : p \in ClassifiedDepths} \cup {mated_in(p) : p \in ClassifiedDepths}
        \cup ((-MaxScore) .. MaxScore) \cup {MIN, MAX}

ClassifyInit ==
    /\ SearcherBoard
    /\ SearcherInit
    /\ RescaleIdle
    /\ \E e \in ClassifiedScores : probe = [call |-> "is_mate", score |-> e, result |-> {}]

\* a call of Evaluation::is_mate on the score
IsMate ==
    /\ probe.call = "is_mate"
    /\ probe.result = {}
    /\ probe' = [probe EXCEPT !.result = {is_mate(probe.score)}]
    /\ UNCHANGED <<boardVars, searcherVars, rescale>>

ClassifyNext == IsMate

\* x as i8 of an i32: the low eight bits, two's complement
i32_as_i8(x) == ((x + 128) % U8) - 128

\* x as i8 of an f32 that is a whole number: saturating
f32_as_i8(x) == IF x > 127 THEN 127 ELSE IF x < -128 THEN -128 ELSE x

\* (n as f32 / 2.0).ceil() for an i8 n: f32 holds n and n / 2 exactly
ceil_half(n) == (n + 1) \div 2

\* (n as f32 / 2.0).trunc()
trunc_half(n) == signum(n) * (Abs(n) \div 2)

\* Evaluation::mate_num_ply once the assert has passed
mate_num_ply(e) == i32_as_i8(signum(e) * (IMMEDIATE_MATE_SCORE - Abs(e)))

\* the half rounded toward zero
mate_full_moves_truncating(e) == f32_as_i8(trunc_half(mate_num_ply(e)))

\* Evaluation::mate_full_moves once the assert has passed
mate_full_moves(e) == f32_as_i8(ceil_half(mate_num_ply(e)))

\* the scores new_mate_eval gives for either colour and 0..=MAX_MATE_DEPTH plies
MateLengthInit ==
    /\ SearcherBoard
    /\ SearcherInit
    /\ RescaleIdle
    /\ \E call \in {"mate_num_ply", "mate_full_moves"}, mating_color \in Color,
          ply_from_root \in 0 .. MAX_MATE_DEPTH :
            probe = [call |-> call, mating_color |-> mating_color,
                     ply_from_root |-> ply_from_root,
                     score |-> new_mate_eval(mating_color, ply_from_root),
                     aborted |-> FALSE, result |-> {}]

\* a call of Evaluation::mate_num_ply on the score: assert!(self.is_mate())
MateNumPly ==
    /\ probe.call = "mate_num_ply"
    /\ probe.result = {}
    /\ ~probe.aborted
    /\ probe' = IF is_mate(probe.score)
                THEN [probe EXCEPT !.result = {mate_num_ply(probe.score)}]
                ELSE [probe EXCEPT !.aborted = TRUE]
    /\ UNCHANGED <<boardVars, searcherVars, rescale>>

\* a call of Evaluation::mate_full_moves on the score, which calls mate_num_ply
MateFullMoves ==
    /\ probe.call = "mate_full_moves"
    /\ probe.result = {}
    /\ ~probe.aborted
    /\ probe' = IF is_mate(probe.score)
                THEN [probe EXCEPT !.result = {mate_full_moves(probe.score)}]
                ELSE [probe EXCEPT !.aborted = TRUE]
    /\ UNCHANGED <<boardVars, searcherVars, rescale>>

MateLengthNext == MateNumPly \/ MateFullMoves
MateLengthSpec == MateLengthInit /\ [][MateLengthNext]_vars
ClassifySpec == ClassifyInit /\ [][ClassifyNext]_vars

PawnAttacksInit ==
    /\ SearcherBoard
    /\ SearcherInit
    /\ RescaleIdle
    /\ \E square \in Square, side \in Color :
         probe = [call |-> "get_pawn_attacks", square |-> square, side |-> side, result |-> {}]

\* a lookup of the generated table: result[side][square]
GetPawnAttacks ==
    /\ probe.call = "get_pawn_attacks"
    /\ probe.result = {}
    /\ probe' = [probe EXCEPT !.result = {get_pawn_attacks(probe.square, probe.side)}]
    /\ UNCHANGED <<boardVars, searcherVars, rescale>>

PawnAttacksNext == GetPawnAttacks
PawnAttacksSpec == PawnAttacksInit /\ [][PawnAttacksNext]_vars

\* the boards that are evaluated: the start boards and the boards one generated
\* move away from them
EvaluatedBoards ==
    InitBoards \cup
    UNION {{apply_move(b, mov) : mov \in {m \in generate_moves(b) : ~apply_move_aborts(b, m)}} :
            b \in InitBoards}

EvaluateInit ==
    /\ board \in EvaluatedBoards
    /\ panicked = FALSE
    /\ SearcherInit
    /\ RescaleIdle
    /\ probe = [call |-> "board_value", result |-> {}]

\* a call of board_value on the board
BoardValue ==
    /\ probe.call = "board_value"
    /\ probe.result = {}
    /\ probe' = [probe EXCEPT !.result = {board_value(board)}]
    /\ UNCHANGED <<boardVars, searcherVars, rescale>>

EvaluateNext == BoardValue
EvaluateSpec == EvaluateInit /\ [][EvaluateNext]_vars

\* the length the fullmove fields are enumerated to
MaxFieldLen == 2

\* the texts of the fullmove field: every text of up to MaxFieldLen characters, and
\* the numbers around 2^15 and 2^16
FullmoveFields ==
    UNION {[1 .. n -> {"0", "1", "2", "+", "-", "x"}] : n \in 0 .. MaxFieldLen}
        \cup {<<"3", "2", "7", "6", "8">>, <<"3", "2", "7", "6", "9">>,
              <<"6", "5", "5", "3", "5">>, <<"6", "5", "5", "3", "6">>}

\* a FEN of the two bare kings whose side to move and fullmove field vary
ParseInit ==
    /\ SearcherBoard
    /\ SearcherInit
    /\ RescaleIdle
    /\ \E side_to_move \in Color, fullmove \in FullmoveFields :
         probe = [call |-> "from_str", side_to_move |-> side_to_move, fullmove |-> fullmove,
                  result |-> "none"]

\* Board::from_str of "5K2/8/8/8/8/8/8/5k2 <side> - - 0 <fullmove>"
FromStr ==
    /\ probe.call = "from_str"
    /\ probe.result = "none"
    /\ ~panicked
    /\ LET fullmove_number == parse_u16(probe.fullmove)
           parsed == from_str({W(King, "f", 8), B(King, "f", 1)}, probe.side_to_move, {}, {}, 0,
                              unwrap(fullmove_number))
           returns == /\ board' = parsed
                      /\ panicked' = FALSE
                      /\ probe' = [probe EXCEPT !.result = "Ok"]
           aborts == /\ board' = board
                     /\ panicked' = TRUE
                     /\ probe' = [probe EXCEPT !.result = "panic"]
       IN  IF fullmove_number = {}
           THEN /\ probe' = [probe EXCEPT !.result = "BadFullMoveNumber"]
                /\ UNCHANGED boardVars
           ELSE IF from_str_overflows(probe.side_to_move, unwrap(fullmove_number))
           THEN aborts \/ returns
           ELSE returns
    /\ UNCHANGED <<searcherVars, rescale>>

ParseNext == FromStr
ParseSpec == ParseInit /\ [][ParseNext]_vars

\* how far below 255 the halfmove clocks of the late boards start
MaxClockSlack == 3

\* 5K2/8/8/8/8/8/8/5k2 w - - <halfmove clock> 130, the clock near the end of u8
ClockInit ==
    /\ board \in {from_str({W(King, "f", 8), B(King, "f", 1)}, White, {}, {}, halfmove_clock, 130) :
                    halfmove_clock \in (U8 - 1 - MaxClockSlack) .. (U8 - 1)}
    /\ panicked = FALSE
    /\ SearcherInit
    /\ RescaleIdle
    /\ ProbeIdle

ClockNext == ApplyMove \/ UndoMove
ClockSpec == ClockInit /\ [][ClockNext]_vars

Init == BoardInit /\ SearcherInit /\ RescaleIdle /\ ProbeIdle
Next == ApplyMove \/ UndoMove
Spec == Init /\ [][Next]_vars

\* the number of moves the lines of play from the two bare kings go to
MaxRepetitionPly == 4

RepetitionInit ==
    /\ board = FenKings
    /\ panicked = FALSE
    /\ SearcherInit
    /\ RescaleIdle
    /\ ProbeIdle

\* Board::apply_move of a generated move, on the lines of play from the two kings
ApplyMoveInLine ==
    /\ ~panicked
    /\ Len(board.history) < MaxRepetitionPly
    /\ \E mov \in generate_moves(board) :
         IF apply_move_aborts(board, mov)
         THEN panicked' = TRUE /\ board' = board
         ELSE IF apply_move_overflows(board)
         THEN \/ panicked' = TRUE /\ board' = board
              \/ panicked' = FALSE /\ board' = apply_move(board, mov)
         ELSE panicked' = FALSE /\ board' = apply_move(board, mov)
    /\ UNCHANGED <<searcherVars, evalVars>>

RepetitionNext == ApplyMoveInLine \/ UndoMove
RepetitionSpec == RepetitionInit /\ [][RepetitionNext]_vars

\* 4k3/8/8/8/8/8/8/4K2R w K - 0 3
FenRookHome ==
    from_str({W(King, "e", 1), W(Rook, "h", 1), B(King, "e", 8)}, White, {WK}, {}, 0, 3)

\* lines of play in which the rook leaves its corner and comes back
EqualityInit ==
    /\ board = FenRookHome
    /\ panicked = FALSE
    /\ SearcherInit
    /\ RescaleIdle
    /\ ProbeIdle

EqualitySpec == EqualityInit /\ [][RepetitionNext]_vars

-----------------------------------------------------------------------------
(* Make / unmake properties *)

\* C1: in every reachable board, every generated move is applied without aborting and
\* apply_move followed by undo_move gives back the same board: placement, side to
\* move, the whole state with its hash, the history and game_ply.
C1_ApplyUndoRestores ==
    \A mov \in generate_moves(board) :
        /\ ~apply_move_aborts(board, mov)
        /\ undo_move(apply_move(board, mov)) = board

\* a board reached by play in which an en-passant capture and another capture are
\* generated, and making and unmaking the en-passant capture restores the board
C1_Witness ==
    /\ Len(board.history) > 0
    /\ \E mov \in generate_moves(board) :
         /\ mov.flags = EnPassant
         /\ apply_move(board, mov).combined # board.combined
         /\ undo_move(apply_move(board, mov)) = board

\* C2: the incrementally maintained hash equals the hash recomputed from scratch over
\* placement, side to move, castling rights and the en-passant file when a target is set.
C2_HashMatchesScratch ==
    board.state.hash =
        generate_hash_key(board.pieces, board.occupancies, board.side_to_move,
                          board.state.en_passant_target, board.state.castling_rights)

\* a board whose last move was a double pawn push made while castling rights or an
\* en-passant target were part of the hash before
C2_Witness ==
    /\ Len(board.history) > 1
    /\ board.state.en_passant_target # {}
    /\ unwrap(board.state.last_move).flags = DoublePawnPush
    /\ C2_HashMatchesScratch

\* C5: the two occupancies are disjoint and combined is their union.
C5_OccupanciesPartition ==
    /\ board.occupancies[White] \cap board.occupancies[Black] = {}
    /\ board.combined = board.occupancies[White] \cup board.occupancies[Black]

\* a board whose last move captured, with the occupancies still a partition
C5_Witness ==
    /\ board.state.captured_piece # {}
    /\ unwrap(board.state.last_move).to \in board.occupancies[Not(board.side_to_move)]
    /\ C5_OccupanciesPartition

\* C6: the six piece bitboards are pairwise disjoint and their union is combined, so
\* piece_at never reaches unreachable!() and is Some exactly when color_at is Some.
C6_PiecesPartition ==
    /\ \A p \in Piece : \A q \in Piece \ {p} : board.pieces[p] \cap board.pieces[q] = {}
    /\ UNION {board.pieces[p] : p \in Piece} = board.combined
    /\ \A s \in Square :
         /\ ~piece_at_unreachable(board, s)
         /\ (piece_at(board, s) # {}) <=> (color_at(board, s) # {})

\* a board whose last move was a capturing promotion to the kind of piece it captured
C6_Witness ==
    /\ board.state.last_move # {}
    /\ unwrap(board.state.last_move).promotion = board.state.captured_piece
    /\ board.state.captured_piece # {}
    /\ piece_at(board, unwrap(board.state.last_move).to) = board.state.captured_piece
    /\ C6_PiecesPartition

\* C7: undo_move on a board with an empty history changes nothing and does not abort.
\* (A step that starts and ends with an empty history is such an undo_move.)
C7_EmptyUndoNoop ==
    [][(Len(board.history) = 0 /\ Len(board'.history) = 0)
        => (board' = board /\ ~panicked')]_vars

-----------------------------------------------------------------------------
(* Move generator properties *)

\* the non-capturing pawn pushes of the side to move, ignoring the king's safety
PseudoQuietPawnPushes(b) ==
    LET us == b.side_to_move
        pawns == b.pieces[Pawn] \cap b.occupancies[us]
        step == IF us = White THEN 8 ELSE -8
        home == IF us = White THEN 1 ELSE 6
        last == IF us = White THEN 7 ELSE 0
        free(s) == s \in Square /\ s \notin b.combined
        single == {s \in pawns : free(s + step) /\ to_rank(s + step) # last}
        promo == {s \in pawns : free(s + step) /\ to_rank(s + step) = last}
        double == {s \in pawns : to_rank(s) = home /\ free(s + step) /\ free(s + 2 * step)}
    IN  {Mv(s, s + step, Pawn, {}, Normal) : s \in single}
        \cup {Mv(s, s + 2 * step, Pawn, {}, DoublePawnPush) : s \in double}
        \cup {Mv(sp[1], sp[1] + step, Pawn, {sp[2]}, Normal) :
                sp \in promo \X {Knight, Bishop, Rook, Queen}}

\* the move is made by apply_move, the mover's king is then not attacked, and
\* undo_move takes it back
LegalByMakeUnmake(b, mov) ==
    /\ ~apply_move_aborts(b, mov)
    /\ king_safe(apply_move(b, mov), b.side_to_move)
    /\ undo_move(apply_move(b, mov)) = b

\* C8: with at most one checker, the quiet pawn generator emits exactly the
\* pseudo-legal pushes that pass the make/unmake legality test.
C8_QuietPawnMovesAreTheLegalPushes ==
    Cardinality(board.state.checkers) <= 1 =>
        QuietPawnMoveGenerator(board, board.state.checkers # {})
            = {mov \in PseudoQuietPawnPushes(board) : LegalByMakeUnmake(board, mov)}

\* a board reached by play, in check, where a pseudo-legal push is refused and a
\* blocking push is generated
C8_Witness ==
    /\ Len(board.history) > 0
    /\ Cardinality(board.state.checkers) = 1
    /\ QuietPawnMoveGenerator(board, TRUE) # {}
    /\ PseudoQuietPawnPushes(board) \ QuietPawnMoveGenerator(board, TRUE) # {}

\* the enemy rooks, bishops and queens that attack the color's king on the board
SliderAttackers(b, us) ==
    LET king_square == bit_scan(b.pieces[King] \cap b.occupancies[us])
    IN  {s \in b.occupancies[Not(us)] :
           \/ /\ s \in b.pieces[Rook] \cup b.pieces[Queen]
              /\ s # king_square
              /\ SameRank(s, king_square) \/ SameFile(s, king_square)
              /\ between(s, king_square) \cap b.combined = {}
           \/ /\ s \in b.pieces[Bishop] \cup b.pieces[Queen]
              /\ s # king_square
              /\ SameDiag(s, king_square) \/ SameAnti(s, king_square)
              /\ between(s, king_square) \cap b.combined = {}}

\* the en-passant captures of the side to move, ignoring the king's safety
PseudoEnPassant(b) ==
    LET us == b.side_to_move
        behind == IF us = White THEN -8 ELSE 8
    IN  {Mv(s, t, Pawn, {}, EnPassant) : <<s, t>> \in
            {x \in (b.pieces[Pawn] \cap b.occupancies[us]) \X b.state.en_passant_target :
                /\ to_rank(x[1]) = to_rank(x[2] + behind)
                /\ Abs(to_file(x[1]) - to_file(x[2])) = 1}}

\* C9: the en-passant generator emits, for each own pawn attacking the target, the
\* capture exactly when no enemy rook, bishop or queen attacks the mover's king once
\* the capture is made (source and captured pawn gone, destination set); nothing
\* without a target.
C9_EnPassantExactlyWhenNoSliderAttack ==
    \A CHECK \in BOOLEAN :
        EnPassantMoveGenerator(board, CHECK)
            = {mov \in PseudoEnPassant(board) :
                 SliderAttackers(apply_move(board, mov), board.side_to_move) = {}}

\* a board reached by a double pawn push where an own pawn attacks the target and the
\* capture is not generated: it would open the rank through both pawns
C9_Witness ==
    /\ Len(board.history) > 0
    /\ unwrap(board.state.last_move).flags = DoublePawnPush
    /\ PseudoEnPassant(board) # {}
    /\ EnPassantMoveGenerator(board, FALSE) = {}
    /\ LET king_square == bit_scan(board.pieces[King] \cap board.occupancies[board.side_to_move])
       IN  \E mov \in PseudoEnPassant(board) : SameRank(king_square, mov.from)

-----------------------------------------------------------------------------
(* Search coordinator properties *)

\* C3: while the worker searches a task for which stop was called after its start,
\* the cancellation flag is set (so the search returns at its next poll).
C3_StopAfterStartIsObserved ==
    (worker = "search" /\ current.id \in cancel_requested) => stop

\* C4: every bestmove line answers a task the worker received and follows a search
\* that returned, by completion or by cancellation; no task is answered twice; the
\* task the worker is still working on is not answered yet; and every other received
\* task, the current one included once its println has run, is answered exactly once.
C4_OneBestmovePerTask ==
    /\ \A i \in 1 .. Len(emitted) : \A j \in 1 .. Len(emitted) :
         emitted[i].id = emitted[j].id => i = j
    /\ \A e \in Range(emitted) :
         e.id \in Range(received) /\ e.ended \in {"cancelled", "completed"}
    /\ \A id \in Range(received) :
         Cardinality({i \in 1 .. Len(emitted) : emitted[i].id = id})
            = IF worker \in {"clear_stop", "lock", "search", "emit"} /\ current.id = id
              THEN 0 ELSE 1

\* both a completed and a cancelled search have been answered, and the worker is idle
C4_Witness ==
    /\ worker = "recv"
    /\ Len(emitted) = 2
    /\ {e.ended : e \in Range(emitted)} = {"cancelled", "completed"}
    /\ C4_OneBestmovePerTask

\* C10: tasks are taken and answered one at a time in start order: the bestmove lines
\* are the first of the started tasks in order, each after its task was received,
\* and the worker takes its next message (a task or Quit) only when every task it
\* received has been answered.
C10_InOrderOneAtATime ==
    /\ Len(received) <= Len(sent)
    /\ \A i \in 1 .. Len(received) : received[i] = sent[i]
    /\ Len(emitted) <= Len(received)
    /\ \A i \in 1 .. Len(emitted) : emitted[i].id = received[i]
    /\ worker \in {"recv", "exited"} => Len(emitted) = Len(received)
    /\ Len(received) - Len(emitted) <= 1
    /\ worker = "exited" => Len(emitted) = Len(sent)

\* Quit was sent behind two tasks, and the worker handled it after both bestmoves
C10_Witness ==
    /\ worker = "exited"
    /\ Len(sent) = 2
    /\ Len(emitted) = 2
    /\ C10_InOrderOneAtATime

\* the worker is between taking the table's mutex and dropping its guard
SearchInProgress == worker \in {"search", "emit", "unlock"}

\* C11: from the start of a search until after its bestmove is printed the worker
\* holds the table's mutex, and clear_tables clears the table only while holding the
\* mutex itself, so never while a search is in progress.
C11_SearchHoldsTable ==
    /\ SearchInProgress => table_lock = "worker"
    /\ caller = "clearing" => (table_lock = "caller" /\ ~SearchInProgress)

\* clear_tables was called during a search and is still waiting while the worker,
\* its search returned, has not yet printed the bestmove
C11_Witness ==
    /\ caller = "clear_wait"
    /\ worker = "emit"
    /\ table_lock = "worker"

\* C12: shutdown terminates: the dropping caller is never left waiting in join for a
\* worker that searches an unbounded task with the cancellation flag clear (no other
\* thread is left to set the flag, so the worker never exits and join never returns).
C12_ShutdownNeverStuck ==
    ~(caller = "drop_join" /\ worker = "search" /\ ~current.bounded /\ ~stop)

-----------------------------------------------------------------------------
(* Board state properties *)

\* the pieces of the other color that attack the color's king on the board: sliders
\* aligned with the king with nothing between, knights a knight move away, pawns
\* one rank ahead of the king (seen from the king's side) on an adjacent file
KingAttackers(b, us) ==
    LET king_square == bit_scan(b.pieces[King] \cap b.occupancies[us])
        ahead == IF us = White THEN 1 ELSE -1
    IN  SliderAttackers(b, us)
        \cup {s \in b.pieces[Knight] \cap b.occupancies[Not(us)] :
                {Abs(to_file(s) - to_file(king_square)),
                 Abs(to_rank(s) - to_rank(king_square))} = {1, 2}}
        \cup {s \in b.pieces[Pawn] \cap b.occupancies[Not(us)] :
                /\ to_rank(s) = to_rank(king_square) + ahead
                /\ Abs(to_file(s) - to_file(king_square)) = 1}

\* C13: state.checkers is exactly the set of pieces of the side not to move that
\* attack the king of the side to move under the current occupancy.
C13_CheckersAreTheAttackers ==
    board.state.checkers = KingAttackers(board, board.side_to_move)

\* after an applied move the side to move is in check by a pawn or by a knight
C13_Witness ==
    /\ Len(board.history) > 0
    /\ board.state.checkers \cap (board.pieces[Pawn] \cup board.pieces[Knight]) # {}
    /\ C13_CheckersAreTheAttackers

\* the board with the piece on the square taken off
without_piece(b, s) ==
    [b EXCEPT !.pieces = [p \in Piece |-> b.pieces[p] \ {s}],
              !.occupancies = [c \in Color |-> b.occupancies[c] \ {s}],
              !.combined = b.combined \ {s}]

\* the color's own pieces whose removal would let one more enemy bishop, rook or
\* queen attack its king
PinnedPieces(b, us) ==
    {s \in b.occupancies[us] \ b.pieces[King] :
        SliderAttackers(without_piece(b, s), us) \ SliderAttackers(b, us) # {}}

\* C14: after every apply_move, state.pinned is exactly the set of the side to move's
\* own pinned pieces: no piece of the other color and no piece that is not pinned.
C14_PinnedAreTheOwnPinnedPieces ==
    board.state.last_move # {} =>
        board.state.pinned = PinnedPieces(board, board.side_to_move)

\* the states of the line of play, oldest first, the current one last
StateLine == Append(board.history, board.state)

\* C15: along the line of play the castling rights only shrink: the rights of every
\* state are a subset of the rights of the state its move was applied to, and so of
\* every earlier state.
C15_CastlingRightsOnlyShrink ==
    \A i \in 1 .. Len(StateLine) : \A j \in i .. Len(StateLine) :
        StateLine[j].castling_rights \subseteq StateLine[i].castling_rights

\* two moves were applied, each of which took a right away
C15_Witness ==
    /\ Len(board.history) = 2
    /\ board.state.castling_rights # board.history[2].castling_rights
    /\ board.history[2].castling_rights # board.history[1].castling_rights
    /\ C15_CastlingRightsOnlyShrink

\* C16: the state apply_move leaves has rule50 = 0 whenever the move was a pawn move
\* (push, double push, en-passant capture, promotion) or a capture by any piece.
C16_Rule50ResetByPawnMoveOrCapture ==
    \A i \in 1 .. Len(StateLine) :
        \A mov \in StateLine[i].last_move :
            (mov.piece = Pawn \/ mov.flags \in {Capture, EnPassant}
                \/ StateLine[i].captured_piece # {})
                => StateLine[i].rule50 = 0

\* a piece other than a pawn captured when the clock was running
C16_Witness ==
    /\ Len(board.history) > 0
    /\ unwrap(board.state.last_move).piece # Pawn
    /\ board.state.captured_piece # {}
    /\ board.history[Len(board.history)].rule50 > 0
    /\ board.state.rule50 = 0

\* C17: the history depth is the number of moves applied and not yet undone: it
\* equals state.ply, the state stacked at depth i was left by i - 1 applied moves,
\* and the depth is 0 exactly when the state is the parsed one (no last move).
C17_HistoryDepthIsPly ==
    /\ Len(board.history) = board.state.ply
    /\ \A i \in 1 .. Len(StateLine) : StateLine[i].ply = i - 1
    /\ \A i \in 1 .. Len(StateLine) : (StateLine[i].last_move = {}) <=> (i = 1)

\* two moves are applied and not undone
C17_Witness ==
    /\ Len(board.history) = 2
    /\ board.state.ply = 2
    /\ board.history[2].last_move # {}

-----------------------------------------------------------------------------
(* Repetition *)

RECURSIVE rewind(_, _)
\* the board n moves earlier on the line of play
rewind(b, n) == IF n = 0 THEN b ELSE rewind(undo_move(b), n - 1)

\* the same placement, side to move, castling rights and en-passant target
same_position(a, b) ==
    /\ a.pieces = b.pieces
    /\ a.occupancies = b.occupancies
    /\ a.side_to_move = b.side_to_move
    /\ a.state.castling_rights = b.state.castling_rights
    /\ a.state.en_passant_target = b.state.en_passant_target

\* the moves of the line of play, oldest first
MovesLine == [i \in 1 .. Len(board.history) |-> unwrap(StateLine[i + 1].last_move)]

\* f8e8, f1e1, e8f8, e1f1
ShuffleLine ==
    <<Mv(S("f", 8), S("e", 8), King, {}, Normal), Mv(S("f", 1), S("e", 1), King, {}, Normal),
      Mv(S("e", 8), S("f", 8), King, {}, Normal), Mv(S("e", 1), S("f", 1), King, {}, Normal)>>

\* C18: is_repetition is true exactly when the position of the board occurred on
\* one of the most recent min(rule50, history length) earlier boards of the line of
\* play; along the king shuffle f8e8, f1e1, e8f8, e1f1 it is false on the initial
\* board and after each of the first three moves and true after the fourth.
C18_RepetitionIsRecurrence ==
    /\ is_repetition(board)
        <=> \E j \in 1 .. Min({board.state.rule50, Len(board.history)}) :
                same_position(rewind(board, j), board)
    /\ (/\ Len(MovesLine) <= Len(ShuffleLine)
        /\ MovesLine = SubSeq(ShuffleLine, 1, Len(MovesLine)))
        => (is_repetition(board) <=> Len(MovesLine) = 4)

\* the four moves of the shuffle are played and the repetition is reported
C18_Witness ==
    /\ MovesLine = ShuffleLine
    /\ is_repetition(board)
    /\ same_position(rewind(board, 4), board)

-----------------------------------------------------------------------------
(* Mate score rescaling *)

\* C19 as stated: for retrieve_ply <= store_ply the score read back is the mate at
\* store_ply - retrieve_ply + original_depth plies.
C19_ReadBackAtStoreMinusRetrieve ==
    (rescale.stage = "retrieved" /\ rescale.retrieve_ply <= rescale.store_ply)
        => unwrap(rescale.retrieved)
             = new_mate_eval(rescale.color,
                             rescale.store_ply - rescale.retrieve_ply + rescale.original_depth)

\* C19 amended: for retrieve_ply <= store_ply <= original_depth + retrieve_ply the
\* passage completes without a failed assertion and the score read back is the mate
\* at original_depth - store_ply + retrieve_ply plies.
C19_ReadBackAtDepthMinusStorePlusRetrieve ==
    (/\ rescale.stage # "idle"
     /\ rescale.retrieve_ply <= rescale.store_ply
     /\ rescale.store_ply <= rescale.original_depth + rescale.retrieve_ply)
        => /\ rescale.stage # "aborted"
           /\ rescale.stage = "retrieved" =>
                unwrap(rescale.retrieved)
                  = new_mate_eval(rescale.color,
                                  rescale.original_depth - rescale.store_ply
                                    + rescale.retrieve_ply)

\* a black mate deep in the reserved range, stored at one ply and read at a lower one
C19_Witness ==
    /\ rescale.stage = "retrieved"
    /\ rescale.color = Black
    /\ rescale.original_depth > MaxMatePly
    /\ 0 < rescale.retrieve_ply
    /\ rescale.retrieve_ply < rescale.store_ply
    /\ unwrap(rescale.retrieved)
         = new_mate_eval(Black, rescale.original_depth - rescale.store_ply + rescale.retrieve_ply)

\* C20: stored and read at the same ply a mate score comes back unchanged; a mate
\* found and stored at its own ply is stored as the mate at ply 0; the mate at ply 0
\* is read at ply r as the mate at r plies; and no assertion fails on the way.
C20_StoreAndReadAreInverse ==
    /\ rescale.stage # "aborted"
    /\ (rescale.stage = "retrieved" /\ rescale.retrieve_ply = rescale.store_ply)
          => rescale.retrieved = rescale.eval
    /\ (rescale.stage \in {"stored", "retrieved"} /\ rescale.store_ply = rescale.original_depth)
          => unwrap(rescale.stored) = new_mate_eval(rescale.color, 0)
    /\ (rescale.stage = "retrieved" /\ unwrap(rescale.stored) = new_mate_eval(rescale.color, 0))
          => unwrap(rescale.retrieved) = new_mate_eval(rescale.color, rescale.retrieve_ply)

\* a black mate found and stored at ply 2 and read back at ply 2
C20_Witness ==
    /\ rescale.stage = "retrieved"
    /\ rescale.color = Black
    /\ rescale.original_depth = 2
    /\ rescale.store_ply = 2
    /\ rescale.retrieve_ply = 2
    /\ unwrap(rescale.stored) = -IMMEDIATE_MATE_SCORE
    /\ rescale.retrieved = rescale.eval

-----------------------------------------------------------------------------
(* Mate score classification *)

\* C21: is_mate holds exactly of the scores whose absolute value lies in the
\* reserved range from IMMEDIATE_MATE_SCORE - MAX_MATE_DEPTH to IMMEDIATE_MATE_SCORE:
\* every mate_in(p) and mated_in(p) with p up to MAX_MATE_DEPTH is a mate score,
\* and no ordinary evaluation and no search bound is.
C21_MateExactlyInReservedRange ==
    (probe.call = "is_mate" /\ probe.result # {}) =>
        (unwrap(probe.result) <=>
            Abs(probe.score) \in (IMMEDIATE_MATE_SCORE - MAX_MATE_DEPTH) .. IMMEDIATE_MATE_SCORE)

-----------------------------------------------------------------------------
(* Pawn attack table *)

\* the squares one rank ahead of s for the color on the files next to the file of s
DiagonalsAhead(s, c) ==
    {t \in Square : /\ to_rank(t) = to_rank(s) + (IF c = White THEN 1 ELSE -1)
                    /\ Abs(to_file(t) - to_file(s)) = 1}

\* C22: for every square and color the generated pawn attack set is exactly the
\* squares one rank forward (towards rank 8 for White, rank 1 for Black) on the
\* adjacent files that exist: at most two squares, one for a pawn on the a- or
\* h-file, none wrapping around a board edge, and none for a square on the last
\* rank in the pawn's direction.
C22_PawnAttacksAreTheDiagonalsAhead ==
    (probe.call = "get_pawn_attacks" /\ probe.result # {}) =>
        LET attacks == unwrap(probe.result)
            s == probe.square
            last_rank == IF probe.side = White THEN 7 ELSE 0
        IN  /\ attacks = DiagonalsAhead(s, probe.side)
            /\ Cardinality(attacks) <= 2
            /\ (to_file(s) \in {0, 7} /\ to_rank(s) # last_rank) => Cardinality(attacks) = 1
            /\ \A t \in attacks : Abs(to_file(t) - to_file(s)) = 1
            /\ to_rank(s) = last_rank => attacks = {}

\* a black pawn on h7 attacks g6 alone, a white pawn on e8 attacks nothing
C22_Witness ==
    /\ probe.call = "get_pawn_attacks"
    /\ \/ probe.square = S("h", 7) /\ probe.side = Black /\ probe.result = {{S("g", 6)}}
       \/ probe.square = S("e", 8) /\ probe.side = White /\ probe.result = {{}}

-----------------------------------------------------------------------------
(* Quiet pawn pushes *)

\* the quiet pawn moves generate_moves emits on the board: none in double check
QuietPawnMoves(b) ==
    IF Cardinality(b.state.checkers) <= 1
    THEN QuietPawnMoveGenerator(b, b.state.checkers # {})
    ELSE {}

\* C23: every quiet pawn push onto the opponent's back rank is emitted as exactly
\* four moves, one for each of knight, bishop, rook and queen, and never without a
\* promotion; a push to any other rank carries no promotion.
C23_BackRankPushesAreFourPromotions ==
    LET moves == QuietPawnMoves(board)
        last == backrank(Not(board.side_to_move))
    IN  \A mov \in moves :
            IF to_rank(mov.to) = last
            THEN LET same == {m \in moves : m.from = mov.from /\ m.to = mov.to}
                 IN  /\ mov.promotion # {}
                     /\ Cardinality(same) = 4
                     /\ {unwrap(m.promotion) : m \in same} = {Knight, Bishop, Rook, Queen}
            ELSE mov.promotion = {}

\* a board where a push onto the back rank is emitted, next to a push that is not
C23_Witness ==
    LET moves == QuietPawnMoves(board)
    IN  /\ Len(board.history) > 0
        /\ \E mov \in moves : mov.promotion = {Rook}
        /\ \E mov \in moves : mov.promotion = {}

-----------------------------------------------------------------------------
(* Promotion *)

\* C24: from a position with no pawn on rank 1 or 8, after any sequence of
\* apply_move and undo_move of generated moves no pawn of either color stands on
\* rank 1 or 8: a promoting move leaves the promoted piece and no pawn on its
\* destination, and undoing it puts the pawn back on the source square and takes
\* the promoted piece away.
C24_NoPawnOnFirstOrLastRank ==
    /\ board.pieces[Pawn] \cap (mask_rank(0) \cup mask_rank(7)) = {}
    /\ \A mov \in board.state.last_move :
         (mov.promotion # {} /\ Len(board.history) > 0) =>
            LET mover == Not(board.side_to_move)
                promotion == unwrap(mov.promotion)
                undone == undo_move(board)
            IN  /\ mov.to \in board.pieces[promotion] \cap board.occupancies[mover]
                /\ mov.to \notin board.pieces[Pawn]
                /\ mov.from \notin board.combined
                /\ mov.from \in undone.pieces[Pawn] \cap undone.occupancies[mover]
                /\ mov.to \notin undone.occupancies[mover]
                /\ mov.to \notin undone.pieces[Pawn]
                /\ mov.to \in undone.pieces[promotion] =>
                        mov.to \in undone.occupancies[Not(mover)]

\* a white pawn has just promoted to a knight on the eighth rank, in answer to a
\* move of Black
C24_Witness ==
    /\ Len(board.history) = 2
    /\ \E mov \in board.state.last_move :
         /\ mov.promotion = {Knight}
         /\ to_rank(mov.to) = 7
         /\ mov.piece = Pawn
         /\ mov.to \in board.pieces[Knight]

-----------------------------------------------------------------------------
(* Static evaluation *)

\* the material and bonus of the color on the board
SideValue(b, c) ==
    LET placed == {ps \in Piece \X Square : ps[2] \in b.pieces[ps[1]] \cap b.occupancies[c]}
    IN  sum([ps \in placed |-> raw_piece_value(ps[1]) + piece_square_table(ps[1], ps[2], c)],
            placed)

\* C25: board_value is the score from the side to move's perspective, the value of
\* the mover's pieces less the value of the other side's pieces, so that for one
\* placement the value with Black to move is the negation of the value with White
\* to move.
C25_ValueIsFromSideToMove ==
    (probe.call = "board_value" /\ probe.result # {}) =>
        unwrap(probe.result)
            = SideValue(board, board.side_to_move) - SideValue(board, Not(board.side_to_move))

-----------------------------------------------------------------------------
(* Commands to a coordinator whose worker has ended *)

\* C26: sending a command (a search task, or the quit of shutdown) to a coordinator
\* whose worker thread has already terminated is reported to the caller as an
\* error value and does not abort the calling thread.
C26_SendToEndedWorkerDoesNotAbort ==
    caller # "send_panicked"

-----------------------------------------------------------------------------
(* FEN parsing: the fullmove field *)

\* the text is an unsigned decimal number, a leading + allowed
IsUnsigned(text) ==
    LET digits == IF text # <<>> /\ text[1] = "+" THEN Tail(text) ELSE text
    IN  digits # <<>> /\ \A i \in 1 .. Len(digits) : digits[i] \in DOMAIN DigitValue

\* the number an unsigned text denotes
UnsignedValue(text) ==
    decimal(IF text[1] = "+" THEN Tail(text) ELSE text)

\* C27: from_str rejects with BadFullMoveNumber every FEN whose fullmove field is
\* not an unsigned integer >= 1 (0 included), and for every FEN it accepts
\* game_ply is 2 * (fullmove - 1), plus 1 when Black is to move, with no
\* wrap-around.
C27_FullmoveCheckedAndPlyExact ==
    (probe.call = "from_str" /\ probe.result # "none") =>
        IF IsUnsigned(probe.fullmove) /\ UnsignedValue(probe.fullmove) >= 1
        THEN probe.result = "Ok" =>
                board.game_ply = 2 * (UnsignedValue(probe.fullmove) - 1)
                                    + (IF probe.side_to_move = Black THEN 1 ELSE 0)
        ELSE probe.result = "BadFullMoveNumber"

-----------------------------------------------------------------------------
(* Quiet pawn pushes in check *)

\* the two squares touch, along a line or a diagonal
Adjacent(s, t) ==
    s # t /\ Abs(to_rank(s) - to_rank(t)) <= 1 /\ Abs(to_file(s) - to_file(t)) <= 1

\* the double pushes of the board whose destination is between the king and the
\* checker while the square they pass over is not
BlockingDoublePushes(b) ==
    LET king_square == bit_scan(b.pieces[King] \cap b.occupancies[b.side_to_move])
        checker == bit_scan(b.state.checkers)
        step == IF b.side_to_move = White THEN 8 ELSE -8
    IN  {mov \in PseudoQuietPawnPushes(b) :
            /\ mov.flags = DoublePawnPush
            /\ mov.from \notin b.state.pinned
            /\ mov.to \in between(king_square, checker)
            /\ (mov.from + step) \notin between(king_square, checker)}

\* C28: when the side to move is in check by exactly one piece, every move of the
\* quiet pawn generator run with CHECK has its destination between the king and
\* the checker; it emits nothing when the checker is a knight, a pawn or next to
\* the king; and it emits a double push whose destination blocks the check even
\* when the square passed over does not block.
C28_PushesInCheckBlock ==
    Cardinality(board.state.checkers) = 1 =>
        LET king_square == bit_scan(board.pieces[King] \cap board.occupancies[board.side_to_move])
            checker == bit_scan(board.state.checkers)
            moves == QuietPawnMoveGenerator(board, TRUE)
        IN  /\ \A mov \in moves : mov.to \in between(king_square, checker)
            /\ (\/ checker \in board.pieces[Knight] \cup board.pieces[Pawn]
                \/ Adjacent(king_square, checker)) => moves = {}
            /\ BlockingDoublePushes(board) \subseteq moves

\* a board in check by a rook where the double push blocks and the single push of
\* the same pawn does not
C28_Witness ==
    /\ Cardinality(board.state.checkers) = 1
    /\ BlockingDoublePushes(board) # {}
    /\ BlockingDoublePushes(board) \subseteq QuietPawnMoveGenerator(board, TRUE)

-----------------------------------------------------------------------------
(* Quiet pawn pushes of pinned pawns *)

\* the board with no piece recorded as pinned
without_pins(b) == [b EXCEPT !.state.pinned = {}]

\* the pawns of the side to move that are in state.pinned and not on the file of
\* their king: pinned along a rank or a diagonal
PawnsPinnedOffFile(b) ==
    LET king_square == bit_scan(b.pieces[King] \cap b.occupancies[b.side_to_move])
    IN  {s \in (b.pieces[Pawn] \cap b.occupancies[b.side_to_move]) \cap b.state.pinned :
            to_file(s) # to_file(king_square)}

\* C29: a pawn contained in state.pinned yields quiet pushes only when it stands
\* on the file of its own king; a pawn pinned along a rank or a diagonal yields no
\* push, and the pushes of the unpinned pawns of the same side are those they
\* have when no pawn is pinned.
C29_PinnedPawnsPushOnlyAlongTheFile ==
    LET moves == QuietPawnMoves(board)
        king_square == bit_scan(board.pieces[King] \cap board.occupancies[board.side_to_move])
    IN  /\ \A mov \in moves :
             mov.from \in board.state.pinned => to_file(mov.from) = to_file(king_square)
        /\ \A s \in PawnsPinnedOffFile(board) :
             /\ SameRank(s, king_square) \/ SameDiag(s, king_square) \/ SameAnti(s, king_square)
             /\ \A mov \in moves : mov.from # s
        /\ {mov \in moves : mov.from \notin board.state.pinned}
             = {mov \in QuietPawnMoves(without_pins(board)) : mov.from \notin board.state.pinned}

\* a board reached by play where one pawn is pinned along a diagonal and has a free
\* square ahead, and another pawn of the same side pushes
C29_Witness ==
    /\ Len(board.history) > 0
    /\ \E s \in PawnsPinnedOffFile(board) :
         \E mov \in PseudoQuietPawnPushes(board) : mov.from = s
    /\ \E mov \in QuietPawnMoves(board) : mov.from \notin board.state.pinned

-----------------------------------------------------------------------------
(* En-passant target *)

\* C30: after apply_move(m) the en-passant target is Some(s) exactly when m is a
\* double pawn push, s being the square the pawn passed over, directly behind
\* m.to from the mover's side; after any other move it is None, so a target never
\* survives more than one ply.
C30_EnPassantTargetOnlyAfterDoublePush ==
    \A i \in 1 .. Len(StateLine) :
        \A mov \in StateLine[i].last_move :
            IF mov.flags = DoublePawnPush
            THEN /\ StateLine[i].en_passant_target = {(mov.from + mov.to) \div 2}
                 /\ \A s \in StateLine[i].en_passant_target :
                      /\ to_file(s) = to_file(mov.to)
                      /\ Abs(to_rank(s) - to_rank(mov.to)) = 1
                      /\ Abs(to_rank(s) - to_rank(mov.from)) = 1
            ELSE StateLine[i].en_passant_target = {}

\* a double push set the target and the move that answered it cleared it
C30_Witness ==
    /\ Len(board.history) = 2
    /\ \E mov \in board.history[2].last_move : mov.flags = DoublePawnPush
    /\ board.history[2].en_passant_target # {}
    /\ board.state.en_passant_target = {}
    /\ board.state.last_move # {}

-----------------------------------------------------------------------------
(* Castling *)

\* the color that made the move state i of the line of play came from
MoverOf(i) ==
    IF (Len(StateLine) - i) % 2 = 0 THEN Not(board.side_to_move) ELSE board.side_to_move

\* the two castling rights of a color
RightsOf(c) == IF c = White THEN WHITE_BOTH_SIDES ELSE BLACK_BOTH_SIDES

\* C31: after apply_move of any king move, castling included, both castling rights
\* of the moving side are cleared, and the rights of the other side are unchanged
\* unless the move captured a rook.
C31_KingMoveClearsOwnRights ==
    \A i \in 2 .. Len(StateLine) :
        \A mov \in StateLine[i].last_move :
            mov.piece = King =>
                /\ StateLine[i].castling_rights \cap RightsOf(MoverOf(i)) = {}
                /\ StateLine[i].captured_piece # {Rook} =>
                        StateLine[i].castling_rights \cap RightsOf(Not(MoverOf(i)))
                            = StateLine[i - 1].castling_rights \cap RightsOf(Not(MoverOf(i)))

\* a side that had a right castled, and the other side kept the right it had
C31_Witness ==
    /\ Len(board.history) > 0
    /\ \E mov \in board.state.last_move : mov.flags = Castling
    /\ board.history[Len(board.history)].castling_rights \cap RightsOf(Not(board.side_to_move)) # {}
    /\ board.state.castling_rights \cap RightsOf(Not(board.side_to_move)) = {}
    /\ board.state.castling_rights \cap RightsOf(board.side_to_move) # {}

\* the corner the rook leaves and the square it reaches when the color's king
\* castles to the square: h to f for the g-file, a to d for the c-file
RookPath(c, to) ==
    LET rank == IF c = White THEN 1 ELSE 8
    IN  IF to_file(to) = FileIdx.g THEN [start |-> S("h", rank), end |-> S("f", rank)]
        ELSE [start |-> S("a", rank), end |-> S("d", rank)]

\* C32: apply_move of a castling move to the g-file moves the mover's rook from the
\* h-file to the f-file of the mover's back rank, and one to the c-file moves it
\* from the a-file to the d-file; the rook, occupancy and combined bitboards and
\* the hash reflect the relocation, and undo_move puts the rook back on its corner.
C32_CastlingRelocatesTheRook ==
    \A mov \in board.state.last_move :
        (mov.flags = Castling /\ Len(board.history) > 0) =>
            LET mover == Not(board.side_to_move)
                rk == RookPath(mover, mov.to)
                undone == undo_move(board)
            IN  /\ to_file(mov.to) \in {FileIdx.c, FileIdx.g}
                /\ rk.end \in (board.pieces[Rook] \cap board.occupancies[mover]) \cap board.combined
                /\ rk.start \notin (board.pieces[Rook] \cup board.occupancies[mover]) \cup board.combined
                /\ PIECE_KEYS(mover, Rook, rk.end) \in board.state.hash
                /\ PIECE_KEYS(mover, Rook, rk.start) \notin board.state.hash
                /\ board.state.hash =
                     generate_hash_key(board.pieces, board.occupancies, board.side_to_move,
                                       board.state.en_passant_target, board.state.castling_rights)
                /\ rk.start \in (undone.pieces[Rook] \cap undone.occupancies[mover]) \cap undone.combined
                /\ rk.end \notin (undone.pieces[Rook] \cup undone.occupancies[mover]) \cup undone.combined
                /\ mov.from \in undone.pieces[King] \cap undone.occupancies[mover]

\* Black has castled long: the rook went from a8 to d8
C32_Witness ==
    /\ Len(board.history) > 0
    /\ \E mov \in board.state.last_move : mov.flags = Castling /\ mov.to = S("c", 8)
    /\ S("d", 8) \in board.pieces[Rook] \cap board.occupancies[Black]
    /\ S("a", 8) \notin board.combined

-----------------------------------------------------------------------------
(* The fifty-move counter at the end of its range *)

\* C33: for every move that is neither a pawn move nor a capture, apply_move sets
\* rule50 to the previous value plus one, within 0..255, for every previous value
\* the board can hold, 255 parsed from a FEN included, with no wrap-around and no
\* abort.
C33_Rule50PlusOneInRange ==
    /\ ~panicked
    /\ \A i \in 2 .. Len(StateLine) :
         \A mov \in StateLine[i].last_move :
            (mov.piece # Pawn /\ mov.flags \notin {Capture, EnPassant}) =>
                /\ StateLine[i].rule50 = StateLine[i - 1].rule50 + 1
                /\ StateLine[i].rule50 \in 0 .. (U8 - 1)

-----------------------------------------------------------------------------
(* The cancellation flag and the table mutex around a task *)

\* the worker has accepted a task (the flag is reset) and its bestmove is not out
TaskUnderWay == worker \in {"lock", "search", "emit"}

\* C34: the cancellation flag is cleared only by the worker as it accepts a new
\* task, never while a search is running: a stop() issued once the worker began a
\* task stays set until the task's bestmove is emitted, a search that runs with
\* the flag set ends cancelled, and a search is cancelled only by a stop() issued
\* after its task was started, never by one issued while the worker was idle.
C34_FlagClearedOnlyOnAccept ==
    /\ [][(stop /\ ~stop') => (worker = "clear_stop" /\ worker' = "lock")]_vars
    /\ [][(stop /\ TaskUnderWay) => stop']_vars
    /\ [][(stop /\ worker = "search" /\ worker' = "emit") => current'.ended = "cancelled"]_vars
    /\ [](\A e \in Range(emitted) : e.ended = "cancelled" => e.id \in cancel_requested)
    /\ [](worker = "emit" /\ current.ended = "cancelled" => current.id \in cancel_requested)

\* a stop() before any task left the first task to complete, and a stop() during
\* the search of the second has cancelled it
C34_Witness ==
    /\ emitted = <<[id |-> 1, ended |-> "completed"]>>
    /\ worker = "emit"
    /\ current.id = 2
    /\ current.ended = "cancelled"
    /\ stop
    /\ cancel_requested = {2}

\* the worker is blocked in, or about to return from, receiver.recv()
WorkerWaiting == worker = "recv"

\* C35: whenever the worker waits on its command channel it does not hold the
\* mutex of the transposition table (the guard is released after each task's
\* bestmove), so a clear_tables() call made while no search is running or queued
\* finds the mutex free and completes without waiting for a search.
C35_NoGuardWhileWaiting ==
    /\ WorkerWaiting => table_lock # "worker"
    /\ (WorkerWaiting /\ chan = <<>> /\ caller = "clear_wait") =>
           /\ table_lock = "free"
           /\ ENABLED ClearTablesLocked

\* clear_tables() is called after a task's bestmove, with nothing queued
C35_Witness ==
    /\ WorkerWaiting
    /\ chan = <<>>
    /\ emitted # <<>>
    /\ caller = "clear_wait"
    /\ table_lock = "free"

-----------------------------------------------------------------------------
(* En passant while in check *)

\* the en-passant target was made by the move just played, a double pawn push
AfterDoublePush ==
    /\ Len(board.history) > 0
    /\ \E mov \in board.state.last_move : mov.flags = DoublePawnPush

\* C36: in a position reached by legal play, the en-passant target made by the
\* opponent's double pawn push just before, every move the en-passant generator
\* emits, with CHECK true as with CHECK false, leaves the mover's king attacked by
\* no enemy piece: no illegal en-passant capture is generated while in check.
C36_EnPassantLeavesKingSafe ==
    AfterDoublePush =>
        \A CHECK \in BOOLEAN : \A mov \in EnPassantMoveGenerator(board, CHECK) :
            /\ mov \in PseudoEnPassant(board)
            /\ king_safe(apply_move(board, mov), board.side_to_move)

\* the pawn that has just pushed two squares checks the king and is taken en passant
C36_Witness ==
    /\ AfterDoublePush
    /\ board.state.checkers # {}
    /\ EnPassantMoveGenerator(board, TRUE) # {}

-----------------------------------------------------------------------------
(* Equality and hashing of boards *)

\* C37: board equality is consistent with board hashing: two boards that compare
\* equal under PartialEq feed the same value to the Hash implementation, for
\* boards reached by any sequences of moves, those that differ only in castling
\* rights or en-passant target included.
C37_EqualBoardsHashEqual ==
    \A n \in 1 .. Len(board.history) :
        eq(board, rewind(board, n)) => hash(board) = hash(rewind(board, n))

-----------------------------------------------------------------------------
(* The length of a mate *)

\* integer division of Rust: the quotient rounded toward zero
div(a, b) == signum(a) * signum(b) * (Abs(a) \div Abs(b))

\* the reference of test_mate_full_moves
expected(v) ==
    div(IF v > 0 THEN IMMEDIATE_MATE_SCORE - v + 1 ELSE -IMMEDIATE_MATE_SCORE - v, 2)

\* C38: for every mate score new_mate_eval(color, p) with p in 0..=99,
\* mate_num_ply returns +p for White and -p for Black, and mate_full_moves returns
\* the full-move count of the test's reference, (IMMEDIATE_MATE - v + 1) / 2 for a
\* positive v and (-IMMEDIATE_MATE - v) / 2 truncated for a negative one, that is
\* ceil(p/2) for White and -floor(p/2) for Black, both within i8.
C38_MateLengths ==
    LET p == probe.ply_from_root
        sign == IF probe.mating_color = White THEN 1 ELSE -1
    IN  (probe.call \in {"mate_num_ply", "mate_full_moves"} /\ p <= MAX_MATE_DEPTH - 1) =>
            /\ ~probe.aborted
            /\ \A r \in probe.result : r \in -128 .. 127
            /\ probe.call = "mate_num_ply" => probe.result \subseteq {sign * p}
            /\ probe.call = "mate_full_moves" =>
                   /\ probe.result \subseteq {expected(probe.score)}
                   /\ probe.mating_color = White => probe.result \subseteq {(p + 1) \div 2}
                   /\ probe.mating_color = Black => probe.result \subseteq {-(p \div 2)}

\* mate_full_moves has answered for a mate by White in an odd number of plies
C38_Witness ==
    /\ probe.call = "mate_full_moves"
    /\ probe.mating_color = White
    /\ probe.ply_from_root = MAX_MATE_DEPTH - 1
    /\ probe.result = {(MAX_MATE_DEPTH) \div 2}

====
